---- MODULE Spec2Model ----
(***************************************************************************)
(* A model of ecourts_scraper.py: the two page parsers, the cause-list     *)
(* matcher and the listing decision taken by main.                         *)
(*                                                                         *)
(* Text is a sequence of one-character strings.  An optional value (a      *)
(* Python value that may be None) is a sequence of length 0 (None) or 1.   *)
(***************************************************************************)
EXTENDS Integers, Sequences, FiniteSets, TLC

VARIABLES
    m_pc, m_entries, m_key, m_result,   \* a call of find_case_in_cause_list
    cl_pc, cl_soup, cl_rows,            \* a call of parse_cause_list_html
    cs_pc, cs_soup, cs_overview,        \* a call of parse_case_status_html
    \* a run of main
    pc,                 \* the step main is at
    args,               \* the command line, parsed at line 416
    result,             \* the RunResult
    entries,            \* the rows of the cause list
    case_key,           \* the identifier searched for
    matched,            \* what find_case_in_cause_list returned
    listing_details, listed_today, listed_tomorrow,
    now_today,          \* datetime.utcnow() when control is at line 511
    now_tomorrow,       \* datetime.utcnow() when control is at line 513
    raised,             \* the exception raised before or in the try block
    raised_in,          \* the step of main that raised it
    except_raised,      \* the exception raised in the except clause
    close_raised,       \* the exception raised in the finally clause, in close()
    exit_code,          \* what main returns; None when an exception leaves main
    saved,              \* the result files are written
    driver_open         \* the browser session is open

matchVars == <<m_pc, m_entries, m_key, m_result>>
causeVars == <<cl_pc, cl_soup, cl_rows>>
statusVars == <<cs_pc, cs_soup, cs_overview>>
listingVars == <<case_key, matched, listing_details, listed_today, listed_tomorrow,
                 now_today, now_tomorrow>>
runVars == <<raised, raised_in, except_raised, close_raised, exit_code, saved, driver_open>>
mainVars == <<pc, args, result, entries, listingVars, runVars>>
otherVars == <<matchVars, causeVars, statusVars>>
vars == <<matchVars, causeVars, statusVars, mainVars>>

----------------------------------------------------------------------------
(* Optional values *)

None == <<>>
Some(x) == <<x>>
IsNone(o) == Len(o) = 0
Val(o) == o[1]

----------------------------------------------------------------------------
(* Characters and the str / re primitives the source uses *)

\* A character is a string: a printable ASCII character other than the grave
\* accent, "\t", "\n", "\f" and "\r" stand for themselves, every other character
\* is written "U+" and its code point in four or more upper-case hexadecimal
\* digits ("U+0060", "U+00A0", "U+1D7CE").
\* A text is a sequence of characters.

AsciiDigits == {"0", "1", "2", "3", "4", "5", "6", "7", "8", "9"}
UpperChars == <<"A", "B", "C", "D", "E", "F", "G", "H", "I", "J", "K", "L", "M",
                "N", "O", "P", "Q", "R", "S", "T", "U", "V", "W", "X", "Y", "Z">>
LowerChars == <<"a", "b", "c", "d", "e", "f", "g", "h", "i", "j", "k", "l", "m",
                "n", "o", "p", "q", "r", "s", "t", "u", "v", "w", "x", "y", "z">>
Uppers == {UpperChars[i] : i \in DOMAIN UpperChars}
Lowers == {LowerChars[i] : i \in DOMAIN LowerChars}
\* [A-Za-z] without re.I
Letters == Uppers \cup Lowers

HexChars == <<"0", "1", "2", "3", "4", "5", "6", "7", "8", "9",
              "A", "B", "C", "D", "E", "F">>

HexValue(h) == (CHOOSE k \in DOMAIN HexChars : HexChars[k] = h) - 1

\* the number written by the characters 3..k of the string c
RECURSIVE HexNumber(_, _)
HexNumber(c, k) ==
    IF k <= 2 THEN 0 ELSE HexNumber(c, k - 1) * 16 + HexValue(SubSeq(c, k, k))

\* the character is written with its code point
IsEscaped(c) == Len(c) > 1

\* the code point of a character written with its code point
CodePoint(c) == HexNumber(c, Len(c))

\* n in hexadecimal, in at least width digits
RECURSIVE HexOf(_, _)
HexOf(n, width) ==
    IF n = 0 /\ width <= 0 THEN ""
    ELSE HexOf(n \div 16, width - 1) \o HexChars[(n % 16) + 1]

\* the character with code point n, beyond ASCII
CharOf(n) == "U+" \o HexOf(n, 4)

InRanges(n, rs) == \E r \in rs : r[1] <= n /\ n <= r[2]

\* the code points of the digits zero of the decimal digits \d matches, beyond
\* ASCII
DigitZeros ==
    { 1632, 1776, 1984, 2406, 2534, 2662, 2790, 2918, 3046, 3174, 3302, 3430,
      3558, 3664, 3792, 3872, 4160, 4240, 6112, 6160, 6470, 6608, 6784, 6800,
      6992, 7088, 7232, 7248, 42528, 43216, 43264, 43472, 43504, 43600, 44016,
      65296, 66720, 68912, 69734, 69872, 69942, 70096, 70384, 70736, 70864,
      71248, 71360, 71472, 71904, 72016, 72784, 73040, 73120, 92768, 92864,
      93008, 120782, 120792, 120802, 120812, 120822, 123200, 123632, 125264,
      130032 }

\* the characters \d matches: the decimal digits of every script
Digits == AsciiDigits \cup {CharOf(z + k) : z \in DigitZeros, k \in 0..9}

\* the characters \s matches and str.strip() removes
Spaces ==
    { "\t", "\n", "U+000B", "\f", "\r", "U+001C", "U+001D", "U+001E", "U+001F",
      " ", "U+0085", "U+00A0", "U+1680", "U+2000", "U+2001", "U+2002", "U+2003",
      "U+2004", "U+2005", "U+2006", "U+2007", "U+2008", "U+2009", "U+200A",
      "U+2028", "U+2029", "U+202F", "U+205F", "U+3000" }

IsDigit(c) == c \in Digits
IsSpace(c) == c \in Spaces

\* str.lower() beyond ASCII: <<lo, hi, step, delta>> says that the code points
\* lo, lo + step, ... hi become the code point delta further
LowerGroups ==
    { <<192, 214, 1, 32>>, <<216, 222, 1, 32>>, <<256, 302, 2, 1>>,
      <<306, 310, 2, 1>>, <<313, 327, 2, 1>>, <<330, 374, 2, 1>>,
      <<376, 376, 1, -121>>, <<377, 381, 2, 1>>, <<385, 385, 1, 210>>,
      <<386, 388, 2, 1>>, <<390, 390, 1, 206>>, <<391, 391, 1, 1>>,
      <<393, 394, 1, 205>>, <<395, 395, 1, 1>>, <<398, 398, 1, 79>>,
      <<399, 399, 1, 202>>, <<400, 400, 1, 203>>, <<401, 401, 1, 1>>,
      <<403, 403, 1, 205>>, <<404, 404, 1, 207>>, <<406, 406, 1, 211>>,
      <<407, 407, 1, 209>>, <<408, 408, 1, 1>>, <<412, 412, 1, 211>>,
      <<413, 413, 1, 213>>, <<415, 415, 1, 214>>, <<416, 420, 2, 1>>,
      <<422, 422, 1, 218>>, <<423, 423, 1, 1>>, <<425, 425, 1, 218>>,
      <<428, 428, 1, 1>>, <<430, 430, 1, 218>>, <<431, 431, 1, 1>>,
      <<433, 434, 1, 217>>, <<435, 437, 2, 1>>, <<439, 439, 1, 219>>,
      <<440, 440, 1, 1>>, <<444, 444, 1, 1>>, <<452, 452, 1, 2>>,
      <<453, 453, 1, 1>>, <<455, 455, 1, 2>>, <<456, 456, 1, 1>>,
      <<458, 458, 1, 2>>, <<459, 475, 2, 1>>, <<478, 494, 2, 1>>,
      <<497, 497, 1, 2>>, <<498, 500, 2, 1>>, <<502, 502, 1, -97>>,
      <<503, 503, 1, -56>>, <<504, 542, 2, 1>>, <<544, 544, 1, -130>>,
      <<546, 562, 2, 1>>, <<570, 570, 1, 10795>>, <<571, 571, 1, 1>>,
      <<573, 573, 1, -163>>, <<574, 574, 1, 10792>>, <<577, 577, 1, 1>>,
      <<579, 579, 1, -195>>, <<580, 580, 1, 69>>, <<581, 581, 1, 71>>,
      <<582, 590, 2, 1>>, <<880, 882, 2, 1>>, <<886, 886, 1, 1>>,
      <<895, 895, 1, 116>>, <<902, 902, 1, 38>>, <<904, 906, 1, 37>>,
      <<908, 908, 1, 64>>, <<910, 911, 1, 63>>, <<913, 929, 1, 32>>,
      <<931, 939, 1, 32>>, <<975, 975, 1, 8>>, <<984, 1006, 2, 1>>,
      <<1012, 1012, 1, -60>>, <<1015, 1015, 1, 1>>, <<1017, 1017, 1, -7>>,
      <<1018, 1018, 1, 1>>, <<1021, 1023, 1, -130>>, <<1024, 1039, 1, 80>>,
      <<1040, 1071, 1, 32>>, <<1120, 1152, 2, 1>>, <<1162, 1214, 2, 1>>,
      <<1216, 1216, 1, 15>>, <<1217, 1229, 2, 1>>, <<1232, 1326, 2, 1>>,
      <<1329, 1366, 1, 48>>, <<4256, 4293, 1, 7264>>, <<4295, 4295, 1, 7264>>,
      <<4301, 4301, 1, 7264>>, <<5024, 5103, 1, 38864>>, <<5104, 5109, 1, 8>>,
      <<7312, 7354, 1, -3008>>, <<7357, 7359, 1, -3008>>, <<7680, 7828, 2, 1>>,
      <<7838, 7838, 1, -7615>>, <<7840, 7934, 2, 1>>, <<7944, 7951, 1, -8>>,
      <<7960, 7965, 1, -8>>, <<7976, 7983, 1, -8>>, <<7992, 7999, 1, -8>>,
      <<8008, 8013, 1, -8>>, <<8025, 8031, 2, -8>>, <<8040, 8047, 1, -8>>,
      <<8072, 8079, 1, -8>>, <<8088, 8095, 1, -8>>, <<8104, 8111, 1, -8>>,
      <<8120, 8121, 1, -8>>, <<8122, 8123, 1, -74>>, <<8124, 8124, 1, -9>>,
      <<8136, 8139, 1, -86>>, <<8140, 8140, 1, -9>>, <<8152, 8153, 1, -8>>,
      <<8154, 8155, 1, -100>>, <<8168, 8169, 1, -8>>, <<8170, 8171, 1, -112>>,
      <<8172, 8172, 1, -7>>, <<8184, 8185, 1, -128>>, <<8186, 8187, 1, -126>>,
      <<8188, 8188, 1, -9>>, <<8486, 8486, 1, -7517>>, <<8491, 8491, 1, -8262>>,
      <<8498, 8498, 1, 28>>, <<8544, 8559, 1, 16>>, <<8579, 8579, 1, 1>>,
      <<9398, 9423, 1, 26>>, <<11264, 11311, 1, 48>>, <<11360, 11360, 1, 1>>,
      <<11362, 11362, 1, -10743>>, <<11363, 11363, 1, -3814>>,
      <<11364, 11364, 1, -10727>>, <<11367, 11371, 2, 1>>,
      <<11373, 11373, 1, -10780>>, <<11374, 11374, 1, -10749>>,
      <<11375, 11375, 1, -10783>>, <<11376, 11376, 1, -10782>>,
      <<11378, 11378, 1, 1>>, <<11381, 11381, 1, 1>>,
      <<11390, 11391, 1, -10815>>, <<11392, 11490, 2, 1>>,
      <<11499, 11501, 2, 1>>, <<11506, 11506, 1, 1>>, <<42560, 42604, 2, 1>>,
      <<42624, 42650, 2, 1>>, <<42786, 42798, 2, 1>>, <<42802, 42862, 2, 1>>,
      <<42873, 42875, 2, 1>>, <<42877, 42877, 1, -35332>>,
      <<42878, 42886, 2, 1>>, <<42891, 42891, 1, 1>>,
      <<42893, 42893, 1, -42280>>, <<42896, 42898, 2, 1>>,
      <<42902, 42920, 2, 1>>, <<42922, 42922, 1, -42308>>,
      <<42923, 42923, 1, -42319>>, <<42924, 42924, 1, -42315>>,
      <<42925, 42925, 1, -42305>>, <<42926, 42926, 1, -42308>>,
      <<42928, 42928, 1, -42258>>, <<42929, 42929, 1, -42282>>,
      <<42930, 42930, 1, -42261>>, <<42931, 42931, 1, 928>>,
      <<42932, 42946, 2, 1>>, <<42948, 42948, 1, -48>>,
      <<42949, 42949, 1, -42307>>, <<42950, 42950, 1, -35384>>,
      <<42951, 42953, 2, 1>>, <<42960, 42960, 1, 1>>, <<42966, 42968, 2, 1>>,
      <<42997, 42997, 1, 1>>, <<65313, 65338, 1, 32>>, <<66560, 66599, 1, 40>>,
      <<66736, 66771, 1, 40>>, <<66928, 66938, 1, 39>>, <<66940, 66954, 1, 39>>,
      <<66956, 66962, 1, 39>>, <<66964, 66965, 1, 39>>, <<68736, 68786, 1, 64>>,
      <<71840, 71871, 1, 32>>, <<93760, 93791, 1, 32>>,
      <<125184, 125217, 1, 34>> }

\* the ASCII characters that str.lower() skips when it looks around a capital
\* sigma
AsciiCaseIgnorable ==
    { "'", ".", ":", "^", "U+0060" }

\* and the ranges of the code points beyond ASCII that it skips
CaseIgnorableRanges ==
    { <<168, 168>>, <<173, 173>>, <<175, 175>>, <<180, 180>>, <<183, 184>>,
      <<688, 879>>, <<884, 885>>, <<890, 890>>, <<900, 901>>, <<903, 903>>,
      <<1155, 1161>>, <<1369, 1369>>, <<1375, 1375>>, <<1425, 1469>>,
      <<1471, 1471>>, <<1473, 1474>>, <<1476, 1477>>, <<1479, 1479>>,
      <<1524, 1524>>, <<1536, 1541>>, <<1552, 1562>>, <<1564, 1564>>,
      <<1600, 1600>>, <<1611, 1631>>, <<1648, 1648>>, <<1750, 1757>>,
      <<1759, 1768>>, <<1770, 1773>>, <<1807, 1807>>, <<1809, 1809>>,
      <<1840, 1866>>, <<1958, 1968>>, <<2027, 2037>>, <<2042, 2042>>,
      <<2045, 2045>>, <<2070, 2093>>, <<2137, 2139>>, <<2184, 2184>>,
      <<2192, 2193>>, <<2200, 2207>>, <<2249, 2306>>, <<2362, 2362>>,
      <<2364, 2364>>, <<2369, 2376>>, <<2381, 2381>>, <<2385, 2391>>,
      <<2402, 2403>>, <<2417, 2417>>, <<2433, 2433>>, <<2492, 2492>>,
      <<2497, 2500>>, <<2509, 2509>>, <<2530, 2531>>, <<2558, 2558>>,
      <<2561, 2562>>, <<2620, 2620>>, <<2625, 2626>>, <<2631, 2632>>,
      <<2635, 2637>>, <<2641, 2641>>, <<2672, 2673>>, <<2677, 2677>>,
      <<2689, 2690>>, <<2748, 2748>>, <<2753, 2757>>, <<2759, 2760>>,
      <<2765, 2765>>, <<2786, 2787>>, <<2810, 2815>>, <<2817, 2817>>,
      <<2876, 2876>>, <<2879, 2879>>, <<2881, 2884>>, <<2893, 2893>>,
      <<2901, 2902>>, <<2914, 2915>>, <<2946, 2946>>, <<3008, 3008>>,
      <<3021, 3021>>, <<3072, 3072>>, <<3076, 3076>>, <<3132, 3132>>,
      <<3134, 3136>>, <<3142, 3144>>, <<3146, 3149>>, <<3157, 3158>>,
      <<3170, 3171>>, <<3201, 3201>>, <<3260, 3260>>, <<3263, 3263>>,
      <<3270, 3270>>, <<3276, 3277>>, <<3298, 3299>>, <<3328, 3329>>,
      <<3387, 3388>>, <<3393, 3396>>, <<3405, 3405>>, <<3426, 3427>>,
      <<3457, 3457>>, <<3530, 3530>>, <<3538, 3540>>, <<3542, 3542>>,
      <<3633, 3633>>, <<3636, 3642>>, <<3654, 3662>>, <<3761, 3761>>,
      <<3764, 3772>>, <<3782, 3782>>, <<3784, 3789>>, <<3864, 3865>>,
      <<3893, 3893>>, <<3895, 3895>>, <<3897, 3897>>, <<3953, 3966>>,
      <<3968, 3972>>, <<3974, 3975>>, <<3981, 3991>>, <<3993, 4028>>,
      <<4038, 4038>>, <<4141, 4144>>, <<4146, 4151>>, <<4153, 4154>>,
      <<4157, 4158>>, <<4184, 4185>>, <<4190, 4192>>, <<4209, 4212>>,
      <<4226, 4226>>, <<4229, 4230>>, <<4237, 4237>>, <<4253, 4253>>,
      <<4348, 4348>>, <<4957, 4959>>, <<5906, 5908>>, <<5938, 5939>>,
      <<5970, 5971>>, <<6002, 6003>>, <<6068, 6069>>, <<6071, 6077>>,
      <<6086, 6086>>, <<6089, 6099>>, <<6103, 6103>>, <<6109, 6109>>,
      <<6155, 6159>>, <<6211, 6211>>, <<6277, 6278>>, <<6313, 6313>>,
      <<6432, 6434>>, <<6439, 6440>>, <<6450, 6450>>, <<6457, 6459>>,
      <<6679, 6680>>, <<6683, 6683>>, <<6742, 6742>>, <<6744, 6750>>,
      <<6752, 6752>>, <<6754, 6754>>, <<6757, 6764>>, <<6771, 6780>>,
      <<6783, 6783>>, <<6823, 6823>>, <<6832, 6862>>, <<6912, 6915>>,
      <<6964, 6964>>, <<6966, 6970>>, <<6972, 6972>>, <<6978, 6978>>,
      <<7019, 7027>>, <<7040, 7041>>, <<7074, 7077>>, <<7080, 7081>>,
      <<7083, 7085>>, <<7142, 7142>>, <<7144, 7145>>, <<7149, 7149>>,
      <<7151, 7153>>, <<7212, 7219>>, <<7222, 7223>>, <<7288, 7293>>,
      <<7376, 7378>>, <<7380, 7392>>, <<7394, 7400>>, <<7405, 7405>>,
      <<7412, 7412>>, <<7416, 7417>>, <<7468, 7530>>, <<7544, 7544>>,
      <<7579, 7679>>, <<8125, 8125>>, <<8127, 8129>>, <<8141, 8143>>,
      <<8157, 8159>>, <<8173, 8175>>, <<8189, 8190>>, <<8203, 8207>>,
      <<8216, 8217>>, <<8228, 8228>>, <<8231, 8231>>, <<8234, 8238>>,
      <<8288, 8292>>, <<8294, 8303>>, <<8305, 8305>>, <<8319, 8319>>,
      <<8336, 8348>>, <<8400, 8432>>, <<11388, 11389>>, <<11503, 11505>>,
      <<11631, 11631>>, <<11647, 11647>>, <<11744, 11775>>, <<11823, 11823>>,
      <<12293, 12293>>, <<12330, 12333>>, <<12337, 12341>>, <<12347, 12347>>,
      <<12441, 12446>>, <<12540, 12542>>, <<40981, 40981>>, <<42232, 42237>>,
      <<42508, 42508>>, <<42607, 42610>>, <<42612, 42621>>, <<42623, 42623>>,
      <<42652, 42655>>, <<42736, 42737>>, <<42752, 42785>>, <<42864, 42864>>,
      <<42888, 42890>>, <<42994, 42996>>, <<43000, 43001>>, <<43010, 43010>>,
      <<43014, 43014>>, <<43019, 43019>>, <<43045, 43046>>, <<43052, 43052>>,
      <<43204, 43205>>, <<43232, 43249>>, <<43263, 43263>>, <<43302, 43309>>,
      <<43335, 43345>>, <<43392, 43394>>, <<43443, 43443>>, <<43446, 43449>>,
      <<43452, 43453>>, <<43471, 43471>>, <<43493, 43494>>, <<43561, 43566>>,
      <<43569, 43570>>, <<43573, 43574>>, <<43587, 43587>>, <<43596, 43596>>,
      <<43632, 43632>>, <<43644, 43644>>, <<43696, 43696>>, <<43698, 43700>>,
      <<43703, 43704>>, <<43710, 43711>>, <<43713, 43713>>, <<43741, 43741>>,
      <<43756, 43757>>, <<43763, 43764>>, <<43766, 43766>>, <<43867, 43871>>,
      <<43881, 43883>>, <<44005, 44005>>, <<44008, 44008>>, <<44013, 44013>>,
      <<64286, 64286>>, <<64434, 64450>>, <<65024, 65039>>, <<65043, 65043>>,
      <<65056, 65071>>, <<65106, 65106>>, <<65109, 65109>>, <<65279, 65279>>,
      <<65287, 65287>>, <<65294, 65294>>, <<65306, 65306>>, <<65342, 65342>>,
      <<65344, 65344>>, <<65392, 65392>>, <<65438, 65439>>, <<65507, 65507>>,
      <<65529, 65531>>, <<66045, 66045>>, <<66272, 66272>>, <<66422, 66426>>,
      <<67456, 67461>>, <<67463, 67504>>, <<67506, 67514>>, <<68097, 68099>>,
      <<68101, 68102>>, <<68108, 68111>>, <<68152, 68154>>, <<68159, 68159>>,
      <<68325, 68326>>, <<68900, 68903>>, <<69291, 69292>>, <<69446, 69456>>,
      <<69506, 69509>>, <<69633, 69633>>, <<69688, 69702>>, <<69744, 69744>>,
      <<69747, 69748>>, <<69759, 69761>>, <<69811, 69814>>, <<69817, 69818>>,
      <<69821, 69821>>, <<69826, 69826>>, <<69837, 69837>>, <<69888, 69890>>,
      <<69927, 69931>>, <<69933, 69940>>, <<70003, 70003>>, <<70016, 70017>>,
      <<70070, 70078>>, <<70089, 70092>>, <<70095, 70095>>, <<70191, 70193>>,
      <<70196, 70196>>, <<70198, 70199>>, <<70206, 70206>>, <<70367, 70367>>,
      <<70371, 70378>>, <<70400, 70401>>, <<70459, 70460>>, <<70464, 70464>>,
      <<70502, 70508>>, <<70512, 70516>>, <<70712, 70719>>, <<70722, 70724>>,
      <<70726, 70726>>, <<70750, 70750>>, <<70835, 70840>>, <<70842, 70842>>,
      <<70847, 70848>>, <<70850, 70851>>, <<71090, 71093>>, <<71100, 71101>>,
      <<71103, 71104>>, <<71132, 71133>>, <<71219, 71226>>, <<71229, 71229>>,
      <<71231, 71232>>, <<71339, 71339>>, <<71341, 71341>>, <<71344, 71349>>,
      <<71351, 71351>>, <<71453, 71455>>, <<71458, 71461>>, <<71463, 71467>>,
      <<71727, 71735>>, <<71737, 71738>>, <<71995, 71996>>, <<71998, 71998>>,
      <<72003, 72003>>, <<72148, 72151>>, <<72154, 72155>>, <<72160, 72160>>,
      <<72193, 72202>>, <<72243, 72248>>, <<72251, 72254>>, <<72263, 72263>>,
      <<72273, 72278>>, <<72281, 72283>>, <<72330, 72342>>, <<72344, 72345>>,
      <<72752, 72758>>, <<72760, 72765>>, <<72767, 72767>>, <<72850, 72871>>,
      <<72874, 72880>>, <<72882, 72883>>, <<72885, 72886>>, <<73009, 73014>>,
      <<73018, 73018>>, <<73020, 73021>>, <<73023, 73029>>, <<73031, 73031>>,
      <<73104, 73105>>, <<73109, 73109>>, <<73111, 73111>>, <<73459, 73460>>,
      <<78896, 78904>>, <<92912, 92916>>, <<92976, 92982>>, <<92992, 92995>>,
      <<94031, 94031>>, <<94095, 94111>>, <<94176, 94177>>, <<94179, 94180>>,
      <<110576, 110579>>, <<110581, 110587>>, <<110589, 110590>>,
      <<113821, 113822>>, <<113824, 113827>>, <<118528, 118573>>,
      <<118576, 118598>>, <<119143, 119145>>, <<119155, 119170>>,
      <<119173, 119179>>, <<119210, 119213>>, <<119362, 119364>>,
      <<121344, 121398>>, <<121403, 121452>>, <<121461, 121461>>,
      <<121476, 121476>>, <<121499, 121503>>, <<121505, 121519>>,
      <<122880, 122886>>, <<122888, 122904>>, <<122907, 122913>>,
      <<122915, 122916>>, <<122918, 122922>>, <<123184, 123197>>,
      <<123566, 123566>>, <<123628, 123631>>, <<125136, 125142>>,
      <<125252, 125259>>, <<127995, 127999>>, <<917505, 917505>>,
      <<917536, 917631>>, <<917760, 917999>> }

\* the ranges of the code points beyond ASCII that are cased and not skipped
CasedRanges ==
    { <<170, 170>>, <<181, 181>>, <<186, 186>>, <<192, 214>>, <<216, 246>>,
      <<248, 442>>, <<444, 447>>, <<452, 659>>, <<661, 687>>, <<880, 883>>,
      <<886, 887>>, <<891, 893>>, <<895, 895>>, <<902, 902>>, <<904, 906>>,
      <<908, 908>>, <<910, 929>>, <<931, 1013>>, <<1015, 1153>>, <<1162, 1327>>,
      <<1329, 1366>>, <<1376, 1416>>, <<4256, 4293>>, <<4295, 4295>>,
      <<4301, 4301>>, <<4304, 4346>>, <<4349, 4351>>, <<5024, 5109>>,
      <<5112, 5117>>, <<7296, 7304>>, <<7312, 7354>>, <<7357, 7359>>,
      <<7424, 7467>>, <<7531, 7543>>, <<7545, 7578>>, <<7680, 7957>>,
      <<7960, 7965>>, <<7968, 8005>>, <<8008, 8013>>, <<8016, 8023>>,
      <<8025, 8025>>, <<8027, 8027>>, <<8029, 8029>>, <<8031, 8061>>,
      <<8064, 8116>>, <<8118, 8124>>, <<8126, 8126>>, <<8130, 8132>>,
      <<8134, 8140>>, <<8144, 8147>>, <<8150, 8155>>, <<8160, 8172>>,
      <<8178, 8180>>, <<8182, 8188>>, <<8450, 8450>>, <<8455, 8455>>,
      <<8458, 8467>>, <<8469, 8469>>, <<8473, 8477>>, <<8484, 8484>>,
      <<8486, 8486>>, <<8488, 8488>>, <<8490, 8493>>, <<8495, 8500>>,
      <<8505, 8505>>, <<8508, 8511>>, <<8517, 8521>>, <<8526, 8526>>,
      <<8544, 8575>>, <<8579, 8580>>, <<9398, 9449>>, <<11264, 11387>>,
      <<11390, 11492>>, <<11499, 11502>>, <<11506, 11507>>, <<11520, 11557>>,
      <<11559, 11559>>, <<11565, 11565>>, <<42560, 42605>>, <<42624, 42651>>,
      <<42786, 42863>>, <<42865, 42887>>, <<42891, 42894>>, <<42896, 42954>>,
      <<42960, 42961>>, <<42963, 42963>>, <<42965, 42969>>, <<42997, 42998>>,
      <<43002, 43002>>, <<43824, 43866>>, <<43872, 43880>>, <<43888, 43967>>,
      <<64256, 64262>>, <<64275, 64279>>, <<65313, 65338>>, <<65345, 65370>>,
      <<66560, 66639>>, <<66736, 66771>>, <<66776, 66811>>, <<66928, 66938>>,
      <<66940, 66954>>, <<66956, 66962>>, <<66964, 66965>>, <<66967, 66977>>,
      <<66979, 66993>>, <<66995, 67001>>, <<67003, 67004>>, <<68736, 68786>>,
      <<68800, 68850>>, <<71840, 71903>>, <<93760, 93823>>, <<119808, 119892>>,
      <<119894, 119964>>, <<119966, 119967>>, <<119970, 119970>>,
      <<119973, 119974>>, <<119977, 119980>>, <<119982, 119993>>,
      <<119995, 119995>>, <<119997, 120003>>, <<120005, 120069>>,
      <<120071, 120074>>, <<120077, 120084>>, <<120086, 120092>>,
      <<120094, 120121>>, <<120123, 120126>>, <<120128, 120132>>,
      <<120134, 120134>>, <<120138, 120144>>, <<120146, 120485>>,
      <<120488, 120512>>, <<120514, 120538>>, <<120540, 120570>>,
      <<120572, 120596>>, <<120598, 120628>>, <<120630, 120654>>,
      <<120656, 120686>>, <<120688, 120712>>, <<120714, 120744>>,
      <<120746, 120770>>, <<120772, 120779>>, <<122624, 122633>>,
      <<122635, 122654>>, <<125184, 125251>>, <<127280, 127305>>,
      <<127312, 127337>>, <<127344, 127369>> }

IsCaseIgnorable(c) ==
    \/ c \in AsciiCaseIgnorable
    \/ IsEscaped(c) /\ InRanges(CodePoint(c), CaseIgnorableRanges)

IsCased(c) ==
    \/ c \in Letters
    \/ IsEscaped(c) /\ InRanges(CodePoint(c), CasedRanges)

\* c.lower() of a string of the one character c: a text, of two characters for
\* the capital I with a dot above
LowerChar(c) ==
    IF c \in Uppers
    THEN <<LowerChars[CHOOSE i \in DOMAIN UpperChars : UpperChars[i] = c]>>
    ELSE IF ~IsEscaped(c) THEN <<c>>
    ELSE IF c = "U+0130" THEN <<"i", "U+0307">>
    ELSE IF c = "U+212A" THEN <<"k">>
    ELSE LET n == CodePoint(c)
             gs == {g \in LowerGroups :
                       g[1] <= n /\ n <= g[2] /\ (n - g[1]) % g[3] = 0}
         IN IF gs = {} THEN <<c>>
            ELSE <<CharOf(n + (CHOOSE g \in gs : TRUE)[4])>>

\* the capital sigma at index i of s is the last cased character of its word
FinalSigma(s, i) ==
    LET before == {j \in 1..(i - 1) : ~IsCaseIgnorable(s[j])}
        after == {j \in (i + 1)..Len(s) : ~IsCaseIgnorable(s[j])}
    IN /\ before # {}
       /\ IsCased(s[CHOOSE j \in before : \A k \in before : k <= j])
       /\ \/ after = {}
          \/ ~IsCased(s[CHOOSE j \in after : \A k \in after : j <= k])

RECURSIVE LowerFrom(_, _)
LowerFrom(s, i) ==
    IF i > Len(s) THEN <<>>
    ELSE (IF s[i] = "U+03A3" /\ FinalSigma(s, i) THEN <<"U+03C2">>
          ELSE LowerChar(s[i]))
         \o LowerFrom(s, i + 1)

\* s.lower()
Lower(s) == LowerFrom(s, 1)

\* the characters beyond ASCII that re.I lets an ASCII letter match: the long s,
\* the Kelvin sign, the capital I with a dot above and the small i without a dot
FoldLetters == {"U+017F", "U+212A", "U+0130", "U+0131"}

\* [A-Za-z] with re.I
LettersIgnoreCase == Letters \cup FoldLetters

\* the lower-case ASCII letter that the character c matches with re.I, or c
IgnoreCase(c) ==
    IF c \in Uppers
    THEN LowerChars[CHOOSE i \in DOMAIN UpperChars : UpperChars[i] = c]
    ELSE IF c = "U+017F" THEN "s"
    ELSE IF c = "U+212A" THEN "k"
    ELSE IF c \in {"U+0130", "U+0131"} THEN "i"
    ELSE c

IgnoreCaseAll(s) == [i \in DOMAIN s |-> IgnoreCase(s[i])]

\* s[i:j] of Python, on 0-based offsets i <= j <= len(s)
Slice(s, i, j) == SubSeq(s, i + 1, j)

RECURSIVE LStrip(_)
LStrip(s) ==
    IF s # <<>> /\ IsSpace(Head(s)) THEN LStrip(Tail(s)) ELSE s

RECURSIVE RStrip(_)
RStrip(s) ==
    IF s # <<>> /\ IsSpace(s[Len(s)]) THEN RStrip(SubSeq(s, 1, Len(s) - 1)) ELSE s

Strip(s) == RStrip(LStrip(s))

\* re.sub(r"\s+", " ", s)
RECURSIVE CollapseWS(_)
CollapseWS(s) ==
    IF s = <<>> THEN <<>>
    ELSE IF IsSpace(Head(s)) THEN <<" ">> \o CollapseWS(LStrip(Tail(s)))
    ELSE <<Head(s)>> \o CollapseWS(Tail(s))

\* sep.join(parts)
RECURSIVE Join(_, _)
Join(sep, parts) ==
    IF parts = <<>> THEN <<>>
    ELSE IF Len(parts) = 1 THEN parts[1]
    ELSE parts[1] \o sep \o Join(sep, Tail(parts))

\* needle in hay
Contains(hay, needle) ==
    \E i \in 0..(Len(hay) - Len(needle)) : Slice(hay, i, i + Len(needle)) = needle

\* sequences over S of length lo..hi
SeqsOf(S, lo, hi) == UNION {[1..n -> S] : n \in lo..hi}

----------------------------------------------------------------------------
(* The parsed page (BeautifulSoup tree).  A node is a record [tag, s, kids]: *)
(* a text node has tag "#text" and its string in s; an element has its      *)
(* children in kids.                                                        *)

TextNode(str) == [tag |-> "#text", s |-> str, kids |-> <<>>]
Elem(t, ks) == [tag |-> t, s |-> <<>>, kids |-> ks]

\* element.find_all(tags): the descendants with one of the tags, in document order
RECURSIVE FindAllIn(_, _)
FindAllIn(ks, tags) ==
    IF ks = <<>> THEN <<>>
    ELSE LET k == Head(ks)
         IN (IF k.tag \in tags THEN <<k>> ELSE <<>>)
            \o FindAllIn(k.kids, tags)
            \o FindAllIn(Tail(ks), tags)

FindAll(node, tags) == FindAllIn(node.kids, tags)

\* the strings of the text nodes below a node, in document order
RECURSIVE StringsIn(_)
StringsIn(ks) ==
    IF ks = <<>> THEN <<>>
    ELSE LET k == Head(ks)
         IN (IF k.tag = "#text" THEN <<k.s>> ELSE <<>>)
            \o StringsIn(k.kids)
            \o StringsIn(Tail(ks))

RECURSIVE StrippedNonEmpty(_)
StrippedNonEmpty(strs) ==
    IF strs = <<>> THEN <<>>
    ELSE (IF Strip(Head(strs)) # <<>> THEN <<Strip(Head(strs))>> ELSE <<>>)
         \o StrippedNonEmpty(Tail(strs))

\* node.get_text(" ", strip=True)
GetText(node) == Join(<<" ">>, StrippedNonEmpty(StringsIn(node.kids)))

----------------------------------------------------------------------------
(* parse_cause_list_html *)

SerialMaxDigits == 4
CaseNoMaxDigits == 6
YearDigits == 4

\* the ranges of the code points beyond ASCII that \w matches
WordRanges ==
    { <<170, 170>>, <<178, 179>>, <<181, 181>>, <<185, 186>>, <<188, 190>>,
      <<192, 214>>, <<216, 246>>, <<248, 705>>, <<710, 721>>, <<736, 740>>,
      <<748, 748>>, <<750, 750>>, <<880, 884>>, <<886, 887>>, <<890, 893>>,
      <<895, 895>>, <<902, 902>>, <<904, 906>>, <<908, 908>>, <<910, 929>>,
      <<931, 1013>>, <<1015, 1153>>, <<1162, 1327>>, <<1329, 1366>>,
      <<1369, 1369>>, <<1376, 1416>>, <<1488, 1514>>, <<1519, 1522>>,
      <<1568, 1610>>, <<1632, 1641>>, <<1646, 1647>>, <<1649, 1747>>,
      <<1749, 1749>>, <<1765, 1766>>, <<1774, 1788>>, <<1791, 1791>>,
      <<1808, 1808>>, <<1810, 1839>>, <<1869, 1957>>, <<1969, 1969>>,
      <<1984, 2026>>, <<2036, 2037>>, <<2042, 2042>>, <<2048, 2069>>,
      <<2074, 2074>>, <<2084, 2084>>, <<2088, 2088>>, <<2112, 2136>>,
      <<2144, 2154>>, <<2160, 2183>>, <<2185, 2190>>, <<2208, 2249>>,
      <<2308, 2361>>, <<2365, 2365>>, <<2384, 2384>>, <<2392, 2401>>,
      <<2406, 2415>>, <<2417, 2432>>, <<2437, 2444>>, <<2447, 2448>>,
      <<2451, 2472>>, <<2474, 2480>>, <<2482, 2482>>, <<2486, 2489>>,
      <<2493, 2493>>, <<2510, 2510>>, <<2524, 2525>>, <<2527, 2529>>,
      <<2534, 2545>>, <<2548, 2553>>, <<2556, 2556>>, <<2565, 2570>>,
      <<2575, 2576>>, <<2579, 2600>>, <<2602, 2608>>, <<2610, 2611>>,
      <<2613, 2614>>, <<2616, 2617>>, <<2649, 2652>>, <<2654, 2654>>,
      <<2662, 2671>>, <<2674, 2676>>, <<2693, 2701>>, <<2703, 2705>>,
      <<2707, 2728>>, <<2730, 2736>>, <<2738, 2739>>, <<2741, 2745>>,
      <<2749, 2749>>, <<2768, 2768>>, <<2784, 2785>>, <<2790, 2799>>,
      <<2809, 2809>>, <<2821, 2828>>, <<2831, 2832>>, <<2835, 2856>>,
      <<2858, 2864>>, <<2866, 2867>>, <<2869, 2873>>, <<2877, 2877>>,
      <<2908, 2909>>, <<2911, 2913>>, <<2918, 2927>>, <<2929, 2935>>,
      <<2947, 2947>>, <<2949, 2954>>, <<2958, 2960>>, <<2962, 2965>>,
      <<2969, 2970>>, <<2972, 2972>>, <<2974, 2975>>, <<2979, 2980>>,
      <<2984, 2986>>, <<2990, 3001>>, <<3024, 3024>>, <<3046, 3058>>,
      <<3077, 3084>>, <<3086, 3088>>, <<3090, 3112>>, <<3114, 3129>>,
      <<3133, 3133>>, <<3160, 3162>>, <<3165, 3165>>, <<3168, 3169>>,
      <<3174, 3183>>, <<3192, 3198>>, <<3200, 3200>>, <<3205, 3212>>,
      <<3214, 3216>>, <<3218, 3240>>, <<3242, 3251>>, <<3253, 3257>>,
      <<3261, 3261>>, <<3293, 3294>>, <<3296, 3297>>, <<3302, 3311>>,
      <<3313, 3314>>, <<3332, 3340>>, <<3342, 3344>>, <<3346, 3386>>,
      <<3389, 3389>>, <<3406, 3406>>, <<3412, 3414>>, <<3416, 3425>>,
      <<3430, 3448>>, <<3450, 3455>>, <<3461, 3478>>, <<3482, 3505>>,
      <<3507, 3515>>, <<3517, 3517>>, <<3520, 3526>>, <<3558, 3567>>,
      <<3585, 3632>>, <<3634, 3635>>, <<3648, 3654>>, <<3664, 3673>>,
      <<3713, 3714>>, <<3716, 3716>>, <<3718, 3722>>, <<3724, 3747>>,
      <<3749, 3749>>, <<3751, 3760>>, <<3762, 3763>>, <<3773, 3773>>,
      <<3776, 3780>>, <<3782, 3782>>, <<3792, 3801>>, <<3804, 3807>>,
      <<3840, 3840>>, <<3872, 3891>>, <<3904, 3911>>, <<3913, 3948>>,
      <<3976, 3980>>, <<4096, 4138>>, <<4159, 4169>>, <<4176, 4181>>,
      <<4186, 4189>>, <<4193, 4193>>, <<4197, 4198>>, <<4206, 4208>>,
      <<4213, 4225>>, <<4238, 4238>>, <<4240, 4249>>, <<4256, 4293>>,
      <<4295, 4295>>, <<4301, 4301>>, <<4304, 4346>>, <<4348, 4680>>,
      <<4682, 4685>>, <<4688, 4694>>, <<4696, 4696>>, <<4698, 4701>>,
      <<4704, 4744>>, <<4746, 4749>>, <<4752, 4784>>, <<4786, 4789>>,
      <<4792, 4798>>, <<4800, 4800>>, <<4802, 4805>>, <<4808, 4822>>,
      <<4824, 4880>>, <<4882, 4885>>, <<4888, 4954>>, <<4969, 4988>>,
      <<4992, 5007>>, <<5024, 5109>>, <<5112, 5117>>, <<5121, 5740>>,
      <<5743, 5759>>, <<5761, 5786>>, <<5792, 5866>>, <<5870, 5880>>,
      <<5888, 5905>>, <<5919, 5937>>, <<5952, 5969>>, <<5984, 5996>>,
      <<5998, 6000>>, <<6016, 6067>>, <<6103, 6103>>, <<6108, 6108>>,
      <<6112, 6121>>, <<6128, 6137>>, <<6160, 6169>>, <<6176, 6264>>,
      <<6272, 6276>>, <<6279, 6312>>, <<6314, 6314>>, <<6320, 6389>>,
      <<6400, 6430>>, <<6470, 6509>>, <<6512, 6516>>, <<6528, 6571>>,
      <<6576, 6601>>, <<6608, 6618>>, <<6656, 6678>>, <<6688, 6740>>,
      <<6784, 6793>>, <<6800, 6809>>, <<6823, 6823>>, <<6917, 6963>>,
      <<6981, 6988>>, <<6992, 7001>>, <<7043, 7072>>, <<7086, 7141>>,
      <<7168, 7203>>, <<7232, 7241>>, <<7245, 7293>>, <<7296, 7304>>,
      <<7312, 7354>>, <<7357, 7359>>, <<7401, 7404>>, <<7406, 7411>>,
      <<7413, 7414>>, <<7418, 7418>>, <<7424, 7615>>, <<7680, 7957>>,
      <<7960, 7965>>, <<7968, 8005>>, <<8008, 8013>>, <<8016, 8023>>,
      <<8025, 8025>>, <<8027, 8027>>, <<8029, 8029>>, <<8031, 8061>>,
      <<8064, 8116>>, <<8118, 8124>>, <<8126, 8126>>, <<8130, 8132>>,
      <<8134, 8140>>, <<8144, 8147>>, <<8150, 8155>>, <<8160, 8172>>,
      <<8178, 8180>>, <<8182, 8188>>, <<8304, 8305>>, <<8308, 8313>>,
      <<8319, 8329>>, <<8336, 8348>>, <<8450, 8450>>, <<8455, 8455>>,
      <<8458, 8467>>, <<8469, 8469>>, <<8473, 8477>>, <<8484, 8484>>,
      <<8486, 8486>>, <<8488, 8488>>, <<8490, 8493>>, <<8495, 8505>>,
      <<8508, 8511>>, <<8517, 8521>>, <<8526, 8526>>, <<8528, 8585>>,
      <<9312, 9371>>, <<9450, 9471>>, <<10102, 10131>>, <<11264, 11492>>,
      <<11499, 11502>>, <<11506, 11507>>, <<11517, 11517>>, <<11520, 11557>>,
      <<11559, 11559>>, <<11565, 11565>>, <<11568, 11623>>, <<11631, 11631>>,
      <<11648, 11670>>, <<11680, 11686>>, <<11688, 11694>>, <<11696, 11702>>,
      <<11704, 11710>>, <<11712, 11718>>, <<11720, 11726>>, <<11728, 11734>>,
      <<11736, 11742>>, <<11823, 11823>>, <<12293, 12295>>, <<12321, 12329>>,
      <<12337, 12341>>, <<12344, 12348>>, <<12353, 12438>>, <<12445, 12447>>,
      <<12449, 12538>>, <<12540, 12543>>, <<12549, 12591>>, <<12593, 12686>>,
      <<12690, 12693>>, <<12704, 12735>>, <<12784, 12799>>, <<12832, 12841>>,
      <<12872, 12879>>, <<12881, 12895>>, <<12928, 12937>>, <<12977, 12991>>,
      <<13312, 19903>>, <<19968, 42124>>, <<42192, 42237>>, <<42240, 42508>>,
      <<42512, 42539>>, <<42560, 42606>>, <<42623, 42653>>, <<42656, 42735>>,
      <<42775, 42783>>, <<42786, 42888>>, <<42891, 42954>>, <<42960, 42961>>,
      <<42963, 42963>>, <<42965, 42969>>, <<42994, 43009>>, <<43011, 43013>>,
      <<43015, 43018>>, <<43020, 43042>>, <<43056, 43061>>, <<43072, 43123>>,
      <<43138, 43187>>, <<43216, 43225>>, <<43250, 43255>>, <<43259, 43259>>,
      <<43261, 43262>>, <<43264, 43301>>, <<43312, 43334>>, <<43360, 43388>>,
      <<43396, 43442>>, <<43471, 43481>>, <<43488, 43492>>, <<43494, 43518>>,
      <<43520, 43560>>, <<43584, 43586>>, <<43588, 43595>>, <<43600, 43609>>,
      <<43616, 43638>>, <<43642, 43642>>, <<43646, 43695>>, <<43697, 43697>>,
      <<43701, 43702>>, <<43705, 43709>>, <<43712, 43712>>, <<43714, 43714>>,
      <<43739, 43741>>, <<43744, 43754>>, <<43762, 43764>>, <<43777, 43782>>,
      <<43785, 43790>>, <<43793, 43798>>, <<43808, 43814>>, <<43816, 43822>>,
      <<43824, 43866>>, <<43868, 43881>>, <<43888, 44002>>, <<44016, 44025>>,
      <<44032, 55203>>, <<55216, 55238>>, <<55243, 55291>>, <<63744, 64109>>,
      <<64112, 64217>>, <<64256, 64262>>, <<64275, 64279>>, <<64285, 64285>>,
      <<64287, 64296>>, <<64298, 64310>>, <<64312, 64316>>, <<64318, 64318>>,
      <<64320, 64321>>, <<64323, 64324>>, <<64326, 64433>>, <<64467, 64829>>,
      <<64848, 64911>>, <<64914, 64967>>, <<65008, 65019>>, <<65136, 65140>>,
      <<65142, 65276>>, <<65296, 65305>>, <<65313, 65338>>, <<65345, 65370>>,
      <<65382, 65470>>, <<65474, 65479>>, <<65482, 65487>>, <<65490, 65495>>,
      <<65498, 65500>>, <<65536, 65547>>, <<65549, 65574>>, <<65576, 65594>>,
      <<65596, 65597>>, <<65599, 65613>>, <<65616, 65629>>, <<65664, 65786>>,
      <<65799, 65843>>, <<65856, 65912>>, <<65930, 65931>>, <<66176, 66204>>,
      <<66208, 66256>>, <<66273, 66299>>, <<66304, 66339>>, <<66349, 66378>>,
      <<66384, 66421>>, <<66432, 66461>>, <<66464, 66499>>, <<66504, 66511>>,
      <<66513, 66517>>, <<66560, 66717>>, <<66720, 66729>>, <<66736, 66771>>,
      <<66776, 66811>>, <<66816, 66855>>, <<66864, 66915>>, <<66928, 66938>>,
      <<66940, 66954>>, <<66956, 66962>>, <<66964, 66965>>, <<66967, 66977>>,
      <<66979, 66993>>, <<66995, 67001>>, <<67003, 67004>>, <<67072, 67382>>,
      <<67392, 67413>>, <<67424, 67431>>, <<67456, 67461>>, <<67463, 67504>>,
      <<67506, 67514>>, <<67584, 67589>>, <<67592, 67592>>, <<67594, 67637>>,
      <<67639, 67640>>, <<67644, 67644>>, <<67647, 67669>>, <<67672, 67702>>,
      <<67705, 67742>>, <<67751, 67759>>, <<67808, 67826>>, <<67828, 67829>>,
      <<67835, 67867>>, <<67872, 67897>>, <<67968, 68023>>, <<68028, 68047>>,
      <<68050, 68096>>, <<68112, 68115>>, <<68117, 68119>>, <<68121, 68149>>,
      <<68160, 68168>>, <<68192, 68222>>, <<68224, 68255>>, <<68288, 68295>>,
      <<68297, 68324>>, <<68331, 68335>>, <<68352, 68405>>, <<68416, 68437>>,
      <<68440, 68466>>, <<68472, 68497>>, <<68521, 68527>>, <<68608, 68680>>,
      <<68736, 68786>>, <<68800, 68850>>, <<68858, 68899>>, <<68912, 68921>>,
      <<69216, 69246>>, <<69248, 69289>>, <<69296, 69297>>, <<69376, 69415>>,
      <<69424, 69445>>, <<69457, 69460>>, <<69488, 69505>>, <<69552, 69579>>,
      <<69600, 69622>>, <<69635, 69687>>, <<69714, 69743>>, <<69745, 69746>>,
      <<69749, 69749>>, <<69763, 69807>>, <<69840, 69864>>, <<69872, 69881>>,
      <<69891, 69926>>, <<69942, 69951>>, <<69956, 69956>>, <<69959, 69959>>,
      <<69968, 70002>>, <<70006, 70006>>, <<70019, 70066>>, <<70081, 70084>>,
      <<70096, 70106>>, <<70108, 70108>>, <<70113, 70132>>, <<70144, 70161>>,
      <<70163, 70187>>, <<70272, 70278>>, <<70280, 70280>>, <<70282, 70285>>,
      <<70287, 70301>>, <<70303, 70312>>, <<70320, 70366>>, <<70384, 70393>>,
      <<70405, 70412>>, <<70415, 70416>>, <<70419, 70440>>, <<70442, 70448>>,
      <<70450, 70451>>, <<70453, 70457>>, <<70461, 70461>>, <<70480, 70480>>,
      <<70493, 70497>>, <<70656, 70708>>, <<70727, 70730>>, <<70736, 70745>>,
      <<70751, 70753>>, <<70784, 70831>>, <<70852, 70853>>, <<70855, 70855>>,
      <<70864, 70873>>, <<71040, 71086>>, <<71128, 71131>>, <<71168, 71215>>,
      <<71236, 71236>>, <<71248, 71257>>, <<71296, 71338>>, <<71352, 71352>>,
      <<71360, 71369>>, <<71424, 71450>>, <<71472, 71483>>, <<71488, 71494>>,
      <<71680, 71723>>, <<71840, 71922>>, <<71935, 71942>>, <<71945, 71945>>,
      <<71948, 71955>>, <<71957, 71958>>, <<71960, 71983>>, <<71999, 71999>>,
      <<72001, 72001>>, <<72016, 72025>>, <<72096, 72103>>, <<72106, 72144>>,
      <<72161, 72161>>, <<72163, 72163>>, <<72192, 72192>>, <<72203, 72242>>,
      <<72250, 72250>>, <<72272, 72272>>, <<72284, 72329>>, <<72349, 72349>>,
      <<72368, 72440>>, <<72704, 72712>>, <<72714, 72750>>, <<72768, 72768>>,
      <<72784, 72812>>, <<72818, 72847>>, <<72960, 72966>>, <<72968, 72969>>,
      <<72971, 73008>>, <<73030, 73030>>, <<73040, 73049>>, <<73056, 73061>>,
      <<73063, 73064>>, <<73066, 73097>>, <<73112, 73112>>, <<73120, 73129>>,
      <<73440, 73458>>, <<73648, 73648>>, <<73664, 73684>>, <<73728, 74649>>,
      <<74752, 74862>>, <<74880, 75075>>, <<77712, 77808>>, <<77824, 78894>>,
      <<82944, 83526>>, <<92160, 92728>>, <<92736, 92766>>, <<92768, 92777>>,
      <<92784, 92862>>, <<92864, 92873>>, <<92880, 92909>>, <<92928, 92975>>,
      <<92992, 92995>>, <<93008, 93017>>, <<93019, 93025>>, <<93027, 93047>>,
      <<93053, 93071>>, <<93760, 93846>>, <<93952, 94026>>, <<94032, 94032>>,
      <<94099, 94111>>, <<94176, 94177>>, <<94179, 94179>>, <<94208, 100343>>,
      <<100352, 101589>>, <<101632, 101640>>, <<110576, 110579>>,
      <<110581, 110587>>, <<110589, 110590>>, <<110592, 110882>>,
      <<110928, 110930>>, <<110948, 110951>>, <<110960, 111355>>,
      <<113664, 113770>>, <<113776, 113788>>, <<113792, 113800>>,
      <<113808, 113817>>, <<119520, 119539>>, <<119648, 119672>>,
      <<119808, 119892>>, <<119894, 119964>>, <<119966, 119967>>,
      <<119970, 119970>>, <<119973, 119974>>, <<119977, 119980>>,
      <<119982, 119993>>, <<119995, 119995>>, <<119997, 120003>>,
      <<120005, 120069>>, <<120071, 120074>>, <<120077, 120084>>,
      <<120086, 120092>>, <<120094, 120121>>, <<120123, 120126>>,
      <<120128, 120132>>, <<120134, 120134>>, <<120138, 120144>>,
      <<120146, 120485>>, <<120488, 120512>>, <<120514, 120538>>,
      <<120540, 120570>>, <<120572, 120596>>, <<120598, 120628>>,
      <<120630, 120654>>, <<120656, 120686>>, <<120688, 120712>>,
      <<120714, 120744>>, <<120746, 120770>>, <<120772, 120779>>,
      <<120782, 120831>>, <<122624, 122654>>, <<123136, 123180>>,
      <<123191, 123197>>, <<123200, 123209>>, <<123214, 123214>>,
      <<123536, 123565>>, <<123584, 123627>>, <<123632, 123641>>,
      <<124896, 124902>>, <<124904, 124907>>, <<124909, 124910>>,
      <<124912, 124926>>, <<124928, 125124>>, <<125127, 125135>>,
      <<125184, 125251>>, <<125259, 125259>>, <<125264, 125273>>,
      <<126065, 126123>>, <<126125, 126127>>, <<126129, 126132>>,
      <<126209, 126253>>, <<126255, 126269>>, <<126464, 126467>>,
      <<126469, 126495>>, <<126497, 126498>>, <<126500, 126500>>,
      <<126503, 126503>>, <<126505, 126514>>, <<126516, 126519>>,
      <<126521, 126521>>, <<126523, 126523>>, <<126530, 126530>>,
      <<126535, 126535>>, <<126537, 126537>>, <<126539, 126539>>,
      <<126541, 126543>>, <<126545, 126546>>, <<126548, 126548>>,
      <<126551, 126551>>, <<126553, 126553>>, <<126555, 126555>>,
      <<126557, 126557>>, <<126559, 126559>>, <<126561, 126562>>,
      <<126564, 126564>>, <<126567, 126570>>, <<126572, 126578>>,
      <<126580, 126583>>, <<126585, 126588>>, <<126590, 126590>>,
      <<126592, 126601>>, <<126603, 126619>>, <<126625, 126627>>,
      <<126629, 126633>>, <<126635, 126651>>, <<127232, 127244>>,
      <<130032, 130041>>, <<131072, 173791>>, <<173824, 177976>>,
      <<177984, 178205>>, <<178208, 183969>>, <<183984, 191456>>,
      <<194560, 195101>>, <<196608, 201546>> }

\* \w
IsWordChar(c) ==
    \/ c \in Letters \cup AsciiDigits \cup {"_"}
    \/ IsEscaped(c) /\ InRanges(CodePoint(c), WordRanges)

\* n digits at 0-based offset i of s
DigitsAt(s, i, n) ==
    /\ i >= 0
    /\ i + n <= Len(s)
    /\ \A j \in 1..n : IsDigit(s[i + j])

CharAt(s, i, c) == i >= 0 /\ i < Len(s) /\ s[i + 1] = c

\* \b at 0-based offset i of s
WordBoundary(s, i) ==
    LET before == i >= 1 /\ i <= Len(s) /\ IsWordChar(s[i])
        after == i >= 0 /\ i < Len(s) /\ IsWordChar(s[i + 1])
    IN before # after

StartsWith(s, p) == Len(s) >= Len(p) /\ SubSeq(s, 1, Len(p)) = p

\* the serial test without the upper limit on the number of digits
SerialMatch_AnyLength(s) ==
    /\ Len(s) >= 1
    /\ DigitsAt(s, 0, Len(s))

\* re.fullmatch(r"\d{1,4}", s)
SerialMatch(s) ==
    /\ Len(s) >= 1
    /\ Len(s) <= SerialMaxDigits
    /\ DigitsAt(s, 0, Len(s))

\* re.match(r"(?i)(sr\.?\s*no\.?|serial)", s)
HeaderMatch(s) ==
    LET l == IgnoreCaseAll(s)
        afterSr == SubSeq(l, 3, Len(l))
        afterDot == IF StartsWith(afterSr, <<".">>) THEN Tail(afterSr) ELSE afterSr
    IN \/ StartsWith(l, <<"s", "r">>) /\ StartsWith(LStrip(afterDot), <<"n", "o">>)
       \/ StartsWith(l, <<"s", "e", "r", "i", "a", "l">>)

\* \d{1,6}\/\d{4} matches at 0-based offset i of s and ends at the offset returned
\* (the set of end offsets: empty or one element)
CaseNoEnds(s, i) ==
    {i + k + 1 + YearDigits : k \in {k \in 1..CaseNoMaxDigits :
        /\ DigitsAt(s, i, k)
        /\ CharAt(s, i + k, "/")
        /\ DigitsAt(s, i + k + 1, YearDigits)}}

\* re.search(r"\b\d{1,6}\/\d{4}\b", s)
BareCaseNoSearch(s) ==
    \E i \in 0..Len(s) :
        /\ WordBoundary(s, i)
        /\ \E e \in CaseNoEnds(s, i) : WordBoundary(s, e)

\* re.search(r"[A-Za-z]{1,10}\s*\d{1,6}\/\d{4}", s)
TypedCaseNoSearch(s) ==
    \E i \in 1..Len(s) :
        /\ s[i] \in Letters
        /\ \E w \in 0..(Len(s) - i) :
              /\ \A j \in 1..w : IsSpace(s[i + j])
              /\ CaseNoEnds(s, i + w) # {}

PurposeWords ==
    { <<"p", "u", "r", "p", "o", "s", "e">>,
      <<"s", "t", "a", "g", "e">>,
      <<"f", "o", "r", " ", "h", "e", "a", "r", "i", "n", "g">>,
      <<"l", "i", "s", "t", "i", "n", "g">> }

\* re.search(r"(?i)(purpose|stage|for hearing|listing)", s)
PurposeWordSearch(s) == \E w \in PurposeWords : Contains(IgnoreCaseAll(s), w)

\* re.search(r"(?i)\bCourt\b", s)
CourtWordSearch(s) ==
    LET l == IgnoreCaseAll(s)
    IN \E i \in 0..(Len(s) - 5) :
          /\ Slice(l, i, i + 5) = <<"c", "o", "u", "r", "t">>
          /\ WordBoundary(s, i)
          /\ WordBoundary(s, i + 5)

\* the first element of cells satisfying P, or None
FirstCell(cells, P(_)) ==
    LET hits == {i \in DOMAIN cells : P(cells[i])}
    IN IF hits = {} THEN None
       ELSE Some(cells[CHOOSE i \in hits : \A j \in hits : i <= j])

IsCaseText(cell) == BareCaseNoSearch(cell) \/ TypedCaseNoSearch(cell)

\* the dict appended for a row whose cell texts are tds and whose serial is set
RowRecord(tds) ==
    [ serial |-> tds[1],
      case_text |-> FirstCell(SubSeq(tds, 2, IF Len(tds) < 4 THEN Len(tds) ELSE 4), IsCaseText),
      purpose |-> FirstCell(tds, PurposeWordSearch),
      court_info |-> FirstCell(tds, CourtWordSearch),
      raw_cells |-> tds ]

\* the texts of the cells of a tr
CellTexts(tr) ==
    LET cells == FindAll(tr, {"td", "th"})
    IN [i \in DOMAIN cells |-> GetText(cells[i])]

\* the body of the loop over tr: the rows one tr appends (none or one)
RowsOfTr(tr) ==
    LET tds == CellTexts(tr)
    IN IF Len(tds) < 2 THEN <<>>
       ELSE IF SerialMatch(tds[1]) THEN <<RowRecord(tds)>>
       ELSE IF HeaderMatch(tds[1]) THEN <<>>
       ELSE <<>>

RECURSIVE RowsOfTrs(_)
RowsOfTrs(trs) ==
    IF trs = <<>> THEN <<>> ELSE RowsOfTr(Head(trs)) \o RowsOfTrs(Tail(trs))

RECURSIVE RowsOfTables(_)
RowsOfTables(tables) ==
    IF tables = <<>> THEN <<>>
    ELSE RowsOfTrs(FindAll(Head(tables), {"tr"})) \o RowsOfTables(Tail(tables))

parse_cause_list_html(soup) == RowsOfTables(FindAll(soup, {"table"}))

----------------------------------------------------------------------------
(* parse_case_status_html *)

CnrLength == 16
WindowBefore == 60
WindowAfter == 80
PurposeMinLength == 3
PurposeMaxLength == 60

\* the literal lit, ignoring case, at 0-based offset i of t
LitAt(t, i, lit) ==
    /\ i >= 0
    /\ i + Len(lit) <= Len(t)
    /\ IgnoreCaseAll(Slice(t, i, i + Len(lit))) = lit

\* the offset after the longest run of characters of class cls at offset i of t
RECURSIVE SkipRun(_, _, _)
SkipRun(t, i, cls) ==
    IF i < Len(t) /\ t[i + 1] \in cls THEN SkipRun(t, i + 1, cls) ELSE i

\* the offsets at which x? can end when tried at offset i, the preferred one first
OptEnds(t, i, cls) ==
    IF i < Len(t) /\ t[i + 1] \in cls THEN <<i + 1, i>> ELSE <<i>>

\* \s*[:\-]?\s*(group) tried at offset j of t, where Ok(g) says that the group
\* matches at offset g: the offset at which the group starts in the match the
\* regex engine finds (each \s* as long as possible first, the optional character
\* taken first), or None
LabelTail(t, j, Ok(_)) ==
    LET cands ==
            UNION { UNION { { <<a, b, g>> : g \in {g \in b..SkipRun(t, b, Spaces) : Ok(g)} }
                            : b \in {a} \cup (IF a < Len(t) /\ t[a + 1] \in {":", "-"}
                                              THEN {a + 1} ELSE {}) }
                    : a \in j..SkipRun(t, j, Spaces) }
        Before(x, y) ==
            \/ x[1] > y[1]
            \/ x[1] = y[1] /\ x[2] > y[2]
            \/ x[1] = y[1] /\ x[2] = y[2] /\ x[3] >= y[3]
    IN IF cands = {} THEN None
       ELSE Some((CHOOSE x \in cands : \A y \in cands : Before(x, y))[3])

\* the first of a sequence of optional values that is not None
RECURSIVE FirstSome(_)
FirstSome(opts) ==
    IF opts = <<>> THEN None
    ELSE IF Head(opts) # None THEN Head(opts)
    ELSE FirstSome(Tail(opts))

\* the least offset i of t with At(i) # None, as At(i), or None: re.search
Search(t, At(_)) ==
    LET hits == {i \in 0..Len(t) : At(i) # None}
    IN IF hits = {} THEN None
       ELSE At(CHOOSE i \in hits : \A k \in hits : i <= k)

\* [A-Za-z./\-\s] with re.I
CaseNoClass == LettersIgnoreCase \cup Spaces \cup {".", "/", "-"}

\* ([A-Za-z./\-\s]*\d+\/\d{4}) at offset g of t: the end offset, or -1
CaseNoGroupEnd(t, g) ==
    LET r == SkipRun(t, g, CaseNoClass)
        d == SkipRun(t, r, Digits)
    IN IF d > r /\ CharAt(t, d, "/") /\ DigitsAt(t, d + 1, YearDigits)
       THEN d + 1 + YearDigits
       ELSE -1

\* the rest of the case-number regex after its label, tried at offset j:
\* group(2) or None
CaseNoTail(t, j) ==
    LET g == LabelTail(t, j, LAMBDA x : CaseNoGroupEnd(t, x) >= 0)
    IN IF g = None THEN None
       ELSE Some(Slice(t, Val(g), CaseNoGroupEnd(t, Val(g))))

\* (Case\s*No\.?|Case\s*Number)\s*[:\-]?\s*([A-Za-z./\-\s]*\d+\/\d{4}), re.I,
\* matched at offset i: group(2) or None
CaseNoAt(t, i) ==
    IF ~LitAt(t, i, <<"c", "a", "s", "e">>) THEN None
    ELSE LET n == SkipRun(t, i + 4, Spaces)
             dots == OptEnds(t, n + 2, {"."})
         IN FirstSome(
              (IF LitAt(t, n, <<"n", "o">>)
               THEN [k \in DOMAIN dots |-> CaseNoTail(t, dots[k])]
               ELSE <<>>)
              \o (IF LitAt(t, n, <<"n", "u", "m", "b", "e", "r">>)
                  THEN <<CaseNoTail(t, n + 6)>>
                  ELSE <<>>))

\* [A-Z0-9] with re.I
CnrClass == LettersIgnoreCase \cup AsciiDigits

\* (CNR\s*No\.?)\s*[:\-]?\s*([A-Z0-9]{16}), re.I, matched at offset i:
\* group(2) or None
CnrAt(t, i) ==
    IF ~LitAt(t, i, <<"c", "n", "r">>) THEN None
    ELSE LET n == SkipRun(t, i + 3, Spaces)
             dots == OptEnds(t, n + 2, {"."})
             Ok(g) == /\ g + CnrLength <= Len(t)
                      /\ \A k \in 1..CnrLength : t[g + k] \in CnrClass
             Tail_(j) == LET g == LabelTail(t, j, Ok)
                         IN IF g = None THEN None
                            ELSE Some(Slice(t, Val(g), Val(g) + CnrLength))
         IN IF LitAt(t, n, <<"n", "o">>)
            THEN FirstSome([k \in DOMAIN dots |-> Tail_(dots[k])])
            ELSE None

LineBreaks == {"\n", "\r"}

\* (Court\s*Name|Court)\s*[:\-]?\s*([^\n\r]+), re.I, matched at offset i:
\* group(2) or None
CourtAt(t, i) ==
    IF ~LitAt(t, i, <<"c", "o", "u", "r", "t">>) THEN None
    ELSE LET n == SkipRun(t, i + 5, Spaces)
             Ok(g) == g < Len(t) /\ t[g + 1] \notin LineBreaks
             LineEnd(g) ==
                 IF \E e \in g..(Len(t) - 1) : t[e + 1] \in LineBreaks
                 THEN CHOOSE e \in g..(Len(t) - 1) :
                         /\ t[e + 1] \in LineBreaks
                         /\ \A k \in g..(e - 1) : t[k + 1] \notin LineBreaks
                 ELSE Len(t)
             Tail_(j) == LET g == LabelTail(t, j, Ok)
                         IN IF g = None THEN None
                            ELSE Some(Slice(t, Val(g), LineEnd(Val(g))))
         IN FirstSome(
              (IF LitAt(t, n, <<"n", "a", "m", "e">>) THEN <<Tail_(n + 4)>> ELSE <<>>)
              \o <<Tail_(i + 5)>>)

\* (\d{2}-\d{2}-\d{4}) matches at offset i of t
DateAt(t, i) ==
    /\ DigitsAt(t, i, 2)
    /\ CharAt(t, i + 2, "-")
    /\ DigitsAt(t, i + 3, 2)
    /\ CharAt(t, i + 5, "-")
    /\ DigitsAt(t, i + 6, 4)

DateLength == 10

\* [A-Za-z0-9 ,./()_-] with re.I
PurposeClass ==
    LettersIgnoreCase \cup AsciiDigits \cup {" ", ",", ".", "/", "(", ")", "_", "-"}

\* (Purpose|Stage)\s*[:\-]?\s*([A-Za-z0-9 ,./()_-]{3,60}), re.I, matched at
\* offset i of the window w: group(2) or None
PurposeAt(w, i) ==
    LET Ok(g) == SkipRun(w, g, PurposeClass) - g >= PurposeMinLength
        Tail_(j) ==
            LET g == LabelTail(w, j, Ok)
            IN IF g = None THEN None
               ELSE LET e == SkipRun(w, Val(g), PurposeClass)
                    IN Some(Slice(w, Val(g),
                                  IF e - Val(g) > PurposeMaxLength
                                  THEN Val(g) + PurposeMaxLength ELSE e))
    IN IF LitAt(w, i, <<"p", "u", "r", "p", "o", "s", "e">>) THEN Tail_(i + 7)
       ELSE IF LitAt(w, i, <<"s", "t", "a", "g", "e">>) THEN Tail_(i + 5)
       ELSE None

\* the dict appended for the date match at offset i of the text
HearingAt(t, i) ==
    LET span_start == IF i - WindowBefore > 0 THEN i - WindowBefore ELSE 0
        span_end == IF i + DateLength + WindowAfter < Len(t)
                    THEN i + DateLength + WindowAfter ELSE Len(t)
        window == Slice(t, span_start, span_end)
        m2 == Search(window, LAMBDA k : PurposeAt(window, k))
    IN [ date |-> Slice(t, i, i + DateLength),
         purpose |-> IF m2 = None THEN None ELSE Some(Strip(Val(m2))) ]

\* the least offset p >= i of t at which \d{2}-\d{2}-\d{4} matches, or None:
\* where re.finditer finds its next match when it scans from offset i
NextDateFrom(t, i) ==
    LET hits == {p \in i..(Len(t) - DateLength) : DateAt(t, p)}
    IN IF hits = {} THEN None
       ELSE Some(CHOOSE p \in hits : \A k \in hits : p <= k)

\* the loop with overlapping matches: the scan resumes one character after the
\* start of a match
RECURSIVE HearingsFrom_Overlapping(_, _)
HearingsFrom_Overlapping(t, i) ==
    LET p == NextDateFrom(t, i)
    IN IF p = None THEN <<>>
       ELSE <<HearingAt(t, Val(p))>> \o HearingsFrom_Overlapping(t, Val(p) + 1)

\* the loop over re.finditer(r"(\d{2}-\d{2}-\d{4})", text), from offset i on: the
\* scan resumes at the end of a match
RECURSIVE HearingsFrom(_, _)
HearingsFrom(t, i) ==
    LET p == NextDateFrom(t, i)
    IN IF p = None THEN <<>>
       ELSE <<HearingAt(t, Val(p))>> \o HearingsFrom(t, Val(p) + DateLength)

StripOpt(o) == IF o = None THEN None ELSE Some(Strip(Val(o)))

parse_case_status_html(soup) ==
    LET text == GetText(soup)
    IN [ cnr |-> StripOpt(Search(text, LAMBDA i : CnrAt(text, i))),
         case_number |-> StripOpt(Search(text, LAMBDA i : CaseNoAt(text, i))),
         court_name |-> StripOpt(Search(text, LAMBDA i : CourtAt(text, i))),
         hearings |-> HearingsFrom(text, 0) ]

----------------------------------------------------------------------------
(* find_case_in_cause_list *)

KeyNorm(str) == Lower(Strip(CollapseWS(str)))

\* the search without the lower-casing of the row text
RECURSIVE find_case_CaseSensitive(_, _)
find_case_CaseSensitive(rows, key) ==
    IF rows = <<>> THEN None
    ELSE LET e == Head(rows)
             big_text == Join(<<" ">>, e.raw_cells)
         IN IF Contains(Strip(CollapseWS(big_text)), KeyNorm(key))
            THEN Some(e)
            ELSE find_case_CaseSensitive(Tail(rows), key)

RECURSIVE find_case_in_cause_list(_, _)
find_case_in_cause_list(rows, key) ==
    IF rows = <<>> THEN None
    ELSE LET e == Head(rows)
             big_text == Join(<<" ">>, e.raw_cells)
         IN IF Contains(KeyNorm(big_text), KeyNorm(key))
            THEN Some(e)
            ELSE find_case_in_cause_list(Tail(rows), key)

----------------------------------------------------------------------------
(* date_str_ist and is_date_in_hearings *)

IstOffsetMinutes == 330
MinutesPerDay == 1440

\* an instant of datetime.utcnow(): [y, m, d, min], min the minute of the day
IsLeap(y) == (y % 4 = 0 /\ y % 100 # 0) \/ y % 400 = 0

DaysInMonth(y, m) ==
    IF m = 2 THEN (IF IsLeap(y) THEN 29 ELSE 28)
    ELSE IF m \in {4, 6, 9, 11} THEN 30
    ELSE 31

\* date + timedelta(days=1)
NextDay(date) ==
    IF date.d < DaysInMonth(date.y, date.m) THEN [date EXCEPT !.d = date.d + 1]
    ELSE IF date.m < 12 THEN [y |-> date.y, m |-> date.m + 1, d |-> 1]
    ELSE [y |-> date.y + 1, m |-> 1, d |-> 1]

\* date + timedelta(days=n), n >= 0
RECURSIVE AddDays(_, _)
AddDays(date, n) == IF n = 0 THEN date ELSE AddDays(NextDay(date), n - 1)

\* (utcnow + timedelta(hours=5, minutes=30)).date()
today_ist(utcnow) ==
    LET date == [y |-> utcnow.y, m |-> utcnow.m, d |-> utcnow.d]
    IN IF utcnow.min + IstOffsetMinutes >= MinutesPerDay THEN NextDay(date) ELSE date

DigitChars == <<"0", "1", "2", "3", "4", "5", "6", "7", "8", "9">>
DigitChar(k) == DigitChars[k + 1]
TwoDigits(n) == <<DigitChar((n \div 10) % 10), DigitChar(n % 10)>>
FourDigits(n) == TwoDigits(n \div 100) \o TwoDigits(n % 100)

\* date.strftime("%d-%m-%Y")
StrfDate(date) ==
    TwoDigits(date.d) \o <<"-">> \o TwoDigits(date.m) \o <<"-">> \o FourDigits(date.y)

\* the date_str_ist that reads the UTC date without the +5:30 offset
date_str_utc(utcnow, days_from_today) ==
    StrfDate(AddDays([y |-> utcnow.y, m |-> utcnow.m, d |-> utcnow.d], days_from_today))

date_str_ist(utcnow, days_from_today) ==
    StrfDate(AddDays(today_ist(utcnow), days_from_today))

\* the test that looks at the first hearing only
is_date_in_hearings_FirstOnly(hearings, target_ddmmyyyy) ==
    hearings # <<>> /\ hearings[1].date = target_ddmmyyyy

is_date_in_hearings(hearings, target_ddmmyyyy) ==
    \E i \in DOMAIN hearings : hearings[i].date = target_ddmmyyyy

----------------------------------------------------------------------------
(* main: the listing decision *)

\* the truth value of an optional string: neither None nor ""
Truthy(o) == o # None /\ Val(o) # <<>>

\* lines 478-482
CaseKey(a, case_overview) ==
    IF Truthy(a.case_type) /\ Truthy(a.case_number) /\ Truthy(a.year)
    THEN Some(Val(a.case_type) \o <<" ">> \o Val(a.case_number) \o <<"/">> \o Val(a.year))
    ELSE IF case_overview # None /\ Truthy(Val(case_overview).case_number)
    THEN Val(case_overview).case_number
    ELSE None

DetailsOf(row) ==
    [ serial |-> row.serial,
      court |-> row.court_info,
      case_text |-> row.case_text,
      purpose |-> row.purpose ]

\* the match step that sets both flags on a match, requested or not
MatchStep_BothFlags(rows, key, want_today, want_tomorrow) ==
    IF rows # <<>> /\ Truthy(key)
    THEN LET m == find_case_in_cause_list(rows, Val(key))
         IN IF m # None
            THEN [ matched |-> m,
                   listing_details |-> Some(DetailsOf(Val(m))),
                   listed_today |-> Some(TRUE),
                   listed_tomorrow |-> Some(TRUE) ]
            ELSE [ matched |-> m,
                   listing_details |-> None,
                   listed_today |-> IF want_today THEN Some(FALSE) ELSE None,
                   listed_tomorrow |-> IF want_tomorrow THEN Some(FALSE) ELSE None ]
    ELSE [ matched |-> None, listing_details |-> None,
           listed_today |-> None, listed_tomorrow |-> None ]

\* lines 484-505: the locals after the search of the cause list
MatchStep(rows, key, want_today, want_tomorrow) ==
    IF rows # <<>> /\ Truthy(key)
    THEN LET m == find_case_in_cause_list(rows, Val(key))
         IN IF m # None
            THEN [ matched |-> m,
                   listing_details |-> Some(DetailsOf(Val(m))),
                   listed_today |-> IF want_today THEN Some(TRUE) ELSE None,
                   listed_tomorrow |-> IF want_tomorrow THEN Some(TRUE) ELSE None ]
            ELSE [ matched |-> m,
                   listing_details |-> None,
                   listed_today |-> IF want_today THEN Some(FALSE) ELSE None,
                   listed_tomorrow |-> IF want_tomorrow THEN Some(FALSE) ELSE None ]
    ELSE [ matched |-> None, listing_details |-> None,
           listed_today |-> None, listed_tomorrow |-> None ]

\* the fallback that treats a False flag as unresolved too
FallbackFlag_UnlessTrue(listed, wanted, hearings, target) ==
    IF wanted /\ listed # Some(TRUE)
    THEN Some(is_date_in_hearings(hearings, target))
    ELSE listed

\* the fallback that is skipped when there are no hearings
FallbackFlag_NeedsHearings(listed, wanted, hearings, target) ==
    IF wanted /\ listed = None /\ hearings # <<>>
    THEN Some(is_date_in_hearings(hearings, target))
    ELSE listed

\* lines 510-511 and 512-513: a flag after the hearing-date fallback
FallbackFlag(listed, wanted, hearings, target) ==
    IF wanted /\ listed = None
    THEN Some(is_date_in_hearings(hearings, target))
    ELSE listed

----------------------------------------------------------------------------
(* Specification of a call of find_case_in_cause_list *)

MaxEntries == 3

MatchIdle == m_pc = "idle" /\ m_entries = <<>> /\ m_key = <<>> /\ m_result = None
CauseIdle == cl_pc = "idle" /\ cl_soup = Elem("[document]", <<>>) /\ cl_rows = <<>>
StatusIdle == cs_pc = "idle" /\ cs_soup = Elem("[document]", <<>>) /\ cs_overview = None

NoArgs ==
    [ cnr |-> None, case_type |-> None, case_number |-> None, year |-> None,
      today |-> FALSE, tomorrow |-> FALSE, causelist |-> FALSE ]

NoInstant == [y |-> 0, m |-> 0, d |-> 0, min |-> 0]

\* lines 444-452
NewRunResult ==
    [ case_overview |-> None, is_listed_today |-> None, is_listed_tomorrow |-> None,
      listing_details |-> None, cause_list |-> None ]

\* main when it is called with the command line a; the RunResult is what
\* lines 444-452 make
MainStart(a) ==
    /\ args = a
    /\ result = NewRunResult
    /\ entries = <<>>
    /\ case_key = None
    /\ matched = None
    /\ listing_details = None
    /\ listed_today = None
    /\ listed_tomorrow = None
    /\ now_today = NoInstant
    /\ now_tomorrow = NoInstant
    /\ raised = "none"
    /\ raised_in = "none"
    /\ except_raised = "none"
    /\ close_raised = "none"
    /\ exit_code = None
    /\ saved = FALSE
    /\ driver_open = FALSE

MainIdle == pc = "idle" /\ MainStart(NoArgs)

\* cell texts of the rows searched
MatchCells ==
    { << <<"1", "2">>, <<"O", "S", " ", "4", "5", "/", "2", "0", "2", "3">>,
         <<"E", "v", "i", "d", "e", "n", "c", "e">> >>,
      << <<"1", "3">>, <<"o", "s", " ", "\t", "4", "5", "/", "2", "0", "2", "3">> >>,
      << <<"1", "4">>, <<"O", "S">>, <<"4", "5", "/", "2", "0", "2", "3">> >>,
      << <<"1", "5">>, <<"O", "S", " ", "4">>, <<"5", "/", "2", "0", "2", "3">> >>,
      << <<"7">>, <<"C", "S", " ", "1", "/", "2", "0", "2", "0">> >>,
      << <<"U+0967">>, <<"U+00C9", "S", "U+00A0", "\f", "4", "5", "/", "2", "0", "2", "3">> >> }

MatchKeys ==
    { <<"O", "S", " ", "4", "5", "/", "2", "0", "2", "3">>,
      <<"O", "S", " ", "9", "9", "9", "/", "2", "0", "2", "3">>,
      <<" ", "o", "S", " ", "\n", "4", "5", "/", "2", "0", "2", "3", " ">>,
      <<"s", " ", "1", "/", "2", "0", "2", "0">>,
      <<"U+00E9", "s", " ", "4", "5">>,
      <<" ">> }

InitMatch ==
    /\ m_pc = "call"
    /\ m_entries \in SeqsOf({RowRecord(c) : c \in MatchCells}, 0, MaxEntries)
    /\ m_key \in MatchKeys
    /\ m_result = None
    /\ CauseIdle
    /\ StatusIdle
    /\ MainIdle

MatchCall ==
    /\ m_pc = "call"
    /\ m_result' = find_case_in_cause_list(m_entries, m_key)
    /\ m_pc' = "done"
    /\ UNCHANGED <<m_entries, m_key, causeVars, statusVars, mainVars>>

NextMatch == MatchCall

SpecMatch == InitMatch /\ [][NextMatch]_vars

\* the whitespace-separated words of a text
RECURSIVE WordsOf(_)
WordsOf(str) ==
    LET t == LStrip(str)
        n == IF \E i \in DOMAIN t : IsSpace(t[i])
             THEN (CHOOSE i \in DOMAIN t :
                      IsSpace(t[i]) /\ \A j \in 1..(i - 1) : ~IsSpace(t[j])) - 1
             ELSE Len(t)
    IN IF t = <<>> THEN <<>>
       ELSE <<SubSeq(t, 1, n)>> \o WordsOf(SubSeq(t, n + 1, Len(t)))

\* a text with its words joined by single spaces, in lower case
Normalised(str) == Lower(Join(<<" ">>, WordsOf(str)))

RowHoldsKey(row, key) ==
    LET hay == Normalised(Join(<<" ">>, row.raw_cells))
        needle == Normalised(key)
    IN \E i \in 0..Len(hay) : \E j \in i..Len(hay) : SubSeq(hay, i + 1, j) = needle

\* C1: the result of find_case_in_cause_list is the row of lowest index whose
\* raw_cells, joined with single spaces, whitespace-collapsed, trimmed and
\* lower-cased, contain the identifier (normalised the same way) as a contiguous
\* substring, and it is None exactly when no row does.
C1_FirstMatchingRow ==
    m_pc = "done" =>
        LET hits == {i \in DOMAIN m_entries : RowHoldsKey(m_entries[i], m_key)}
        IN IF hits = {}
           THEN m_result = None
           ELSE /\ m_result # None
                /\ \E i \in hits :
                      /\ \A j \in hits : i <= j
                      /\ Val(m_result) = m_entries[i]

\* a later row holds the key in another spelling, an earlier row does not hold it
C1_Witness ==
    /\ m_pc = "done"
    /\ Len(m_entries) = 3
    /\ ~RowHoldsKey(m_entries[1], m_key)
    /\ RowHoldsKey(m_entries[2], m_key)
    /\ RowHoldsKey(m_entries[3], m_key)
    /\ m_entries[2] # m_entries[3]
    /\ m_result = Some(m_entries[2])
    /\ ~Contains(Join(<<" ">>, m_entries[2].raw_cells), m_key)

----------------------------------------------------------------------------
(* Specification of a call of parse_cause_list_html *)

MaxRows == 2

\* rows of a page: the tag of the cells and their texts
RowOs45 ==
    <<"td", << <<"1">>,
              <<"O", "S", " ", "4", "5", "/", "2", "0", "2", "3">> >> >>
Row007 ==
    <<"td", << <<"0", "0", "7">>,
              <<"A", "B", "C", "/", "2", "0", "2", "0">>,
              <<"H", "e", "a", "r", "i", "n", "g">> >> >>
RowHeader ==
    <<"th", << <<"S", "r", " ", "N", "o", ".">>,
              <<"C", "a", "s", "e", " ", "N", "o">>,
              <<"P", "u", "r", "p", "o", "s", "e">> >> >>
RowFiveDigits ==
    <<"td", << <<"1", "2", "3", "4", "5">>,
              <<"C", "S", " ", "7", "/", "2", "0", "2", "1">> >> >>
RowOneCell ==
    <<"td", << <<"5">> >> >>
RowLateCaseNo ==
    <<"td", << <<" ", "9", "\n">>,
              <<"C", "o", "u", "r", "t", " ", "2">>,
              <<"x">>,
              <<"y">>,
              <<"8", "/", "2", "0", "2", "1", " ", "F", "o", "r", " ", "H", "e", "a", "r", "i", "n", "g">> >> >>
RowOs45Court ==
    <<"td", << <<"3">>,
              <<"o", "s", " ", " ", "4", "5", "/", "2", "0", "2", "3">>,
              <<"C", "o", "u", "r", "t", " ", "4", " ", "f", "o", "r", " ", "h", "e", "a", "r", "i", "n", "g">> >> >>
\* a serial between no-break spaces, a form feed in the case number, a letter
\* before the word Court
RowNbspSerial ==
    <<"td", << <<"U+00A0", "1", "2", "U+00A0">>,
              <<"O", "S", "\f", "4", "5", "/", "2", "0", "2", "3">>,
              <<"U+00E9", "C", "o", "u", "r", "t">> >> >>
\* a serial in Devanagari digits, the word stage with a long s
RowDevanagariSerial ==
    <<"td", << <<"U+0967", "U+0968">>,
              <<"U+017F", "t", "a", "g", "e">> >> >>
InnerRowMc3 ==
    <<"td", << <<"2">>,
              <<"M", "C", " ", "3", "/", "2", "0", "2", "2">> >> >>
InnerRowSerial ==
    <<"td", << <<"S", "e", "r", "i", "a", "l">>,
              <<"x">> >> >>

CauseRowCells ==
    { RowOs45, Row007, RowHeader, RowFiveDigits,
      RowOneCell, RowLateCaseNo, RowOs45Court,
      RowNbspSerial, RowDevanagariSerial }

\* rows of a table nested in the last cell of a row
InnerRowCells == { InnerRowMc3, InnerRowSerial }

PlainTr(rc) ==
    Elem("tr", [i \in DOMAIN rc[2] |-> Elem(rc[1], <<TextNode(rc[2][i])>>)])

\* the tr of a slot: its cells, and in the last cell the nested table if any
SlotTr(slot) ==
    LET tr == PlainTr(slot.row)
        n == Len(tr.kids)
    IN IF IsNone(slot.inner) THEN tr
       ELSE Elem("tr", [i \in DOMAIN tr.kids |->
                IF i = n
                THEN Elem(tr.kids[i].tag,
                          tr.kids[i].kids \o <<Elem("table", <<PlainTr(Val(slot.inner))>>)>>)
                ELSE tr.kids[i]])

CauseSlots ==
    [ row : CauseRowCells,
      inner : {None} \cup {Some(r) : r \in InnerRowCells},
      fresh : BOOLEAN ]

\* the tables of a page: a slot opens a new table or adds its row to the last one
RECURSIVE SlotTables(_, _)
SlotTables(slots, tables) ==
    IF slots = <<>> THEN tables
    ELSE LET sl == Head(slots)
             n == Len(tables)
         IN SlotTables(Tail(slots),
                IF sl.fresh \/ n = 0
                THEN Append(tables, <<SlotTr(sl)>>)
                ELSE [tables EXCEPT ![n] = Append(tables[n], SlotTr(sl))])

SlotSoup(slots) ==
    LET tables == SlotTables(slots, <<>>)
    IN Elem("[document]", [i \in DOMAIN tables |-> Elem("table", tables[i])])

InitCause ==
    /\ cl_pc = "call"
    /\ cl_soup \in {SlotSoup(sl) : sl \in SeqsOf(CauseSlots, 0, MaxRows)}
    /\ cl_rows = <<>>
    /\ MatchIdle
    /\ StatusIdle
    /\ MainIdle

CauseCall ==
    /\ cl_pc = "call"
    /\ cl_rows' = parse_cause_list_html(cl_soup)
    /\ cl_pc' = "done"
    /\ UNCHANGED <<cl_soup, matchVars, statusVars, mainVars>>

NextCause == CauseCall

SpecCause == InitCause /\ [][NextCause]_vars

OneToFourDigits(str) ==
    /\ Len(str) \in 1..4
    /\ \A i \in DOMAIN str : str[i] \in Digits

HeaderLike(str) ==
    \/ StartsWith(IgnoreCaseAll(str), <<"s", "r">>)
    \/ StartsWith(IgnoreCaseAll(str), <<"s", "e", "r", "i", "a", "l">>)

\* C7: every row returned has at least 2 raw_cells, its serial is raw_cells[0]
\* verbatim, that cell is 1 to 4 digits and nothing else, and the row's cells are
\* those of a tr of the page; no header-like or otherwise non-serial first cell
\* is in the output.
C7_RowsHaveDigitSerial ==
    cl_pc = "done" =>
        \A i \in DOMAIN cl_rows :
            LET r == cl_rows[i]
            IN /\ Len(r.raw_cells) >= 2
               /\ r.serial = r.raw_cells[1]
               /\ OneToFourDigits(r.raw_cells[1])
               /\ ~HeaderLike(r.raw_cells[1])
               /\ \E t \in DOMAIN FindAll(cl_soup, {"tr"}) :
                     LET cells == FindAll(FindAll(cl_soup, {"tr"})[t], {"td", "th"})
                     IN /\ Len(cells) = Len(r.raw_cells)
                        /\ \A c \in DOMAIN cells : GetText(cells[c]) = r.raw_cells[c]

\* a page with a header row and the row "007": only the latter is returned
C7_Witness ==
    /\ cl_pc = "done"
    /\ Len(cl_rows) = 1
    /\ cl_rows[1].serial = <<"0", "0", "7">>
    /\ Len(FindAll(cl_soup, {"tr"})) = 2
    /\ \E t \in 1..2 :
          LET ths == FindAll(FindAll(cl_soup, {"tr"})[t], {"th"})
          IN /\ Len(ths) >= 2
             /\ GetText(ths[1]) = <<"S", "r", " ", "N", "o", ".">>

\* the cells that are children of a tr
DirectCells(tr) == SelectSeq(tr.kids, LAMBDA k : k.tag \in {"td", "th"})

IsDataTr(tr) ==
    /\ Len(DirectCells(tr)) >= 2
    /\ OneToFourDigits(GetText(DirectCells(tr)[1]))

\* the data rows of the page, in document order
DataTrs(soup) == SelectSeq(FindAll(soup, {"tr"}), IsDataTr)

\* C8: parse_cause_list_html returns exactly one record per data row of the page
\* (a tr with at least 2 cells whose first cell is 1 to 4 digits), in document
\* order, also when tables are nested in cells; it returns the empty sequence when
\* there is no table or no data row.
C8_OneRecordPerDataRow ==
    cl_pc = "done" =>
        LET trs == DataTrs(cl_soup)
        IN /\ Len(cl_rows) = Len(trs)
           /\ \A i \in DOMAIN cl_rows :
                 i <= Len(trs) => cl_rows[i].serial = GetText(DirectCells(trs[i])[1])

----------------------------------------------------------------------------
(* Specification of a call of parse_case_status_html *)

MaxNodes == 3

\* strings of the text nodes of a page
CnrPiece ==
    <<"C", "N", "R", " ", "N", "o", ":", " ", "M", "H", "A", "U", "0", "1",
    "9", "9", "9", "9", "9", "9", "2", "0", "1", "5">>
CnrLowerPiece ==
    <<"c", "n", "r", " ", "n", "o", ".", "-", "d", "l", "c", "t", "0", "1",
    "0", "0", "0", "0", "0", "1", "2", "0", "2", "0", "7">>
CnrShortPiece ==
    <<"C", "N", "R", " ", "N", "o", ":", " ", "M", "H", "A", "U", "0", "1",
    "9", "9">>
DatePiece ==
    <<"0", "5", "-", "0", "3", "-", "2", "0", "2", "5">>
NextDatePiece ==
    <<"N", "e", "x", "t", " ", "D", "a", "t", "e", " ", "0", "5", "-", "0",
    "3", "-", "2", "0", "2", "5", " ", "P", "u", "r", "p", "o", "s", "e", ":",
    " ", "A", "r", "g", "u", "m", "e", "n", "t", "s">>
OverlapPiece ==
    <<"1", "0", "5", "-", "0", "3", "-", "2", "0", "2", "5", "-", "0", "3",
    "-", "2", "0", "2", "5", "1">>
\* a date in Devanagari digits, the label Stage with a long s, a no-break space
DevanagariDatePiece ==
    <<"U+0966", "U+096B", "-", "U+0966", "U+0969", "-", "U+0968", "U+0966",
    "U+0968", "U+096B", " ", "U+017F", "t", "a", "g", "e", ":", "U+00A0", "O",
    "r", "d", "e", "r", "s">>
BlankStagePiece ==
    <<"S", "t", "a", "g", "e", ":", " ", " ", " ", "#">>
CaseNoPiece ==
    <<"C", "a", "s", "e", " ", "N", "o", ".", " ", "O", "S", " ", "4", "5",
    "/", "2", "0", "2", "3">>
CourtPiece ==
    <<"C", "o", "u", "r", "t", ":", " ", "C", "i", "v", "i", "l", " ", "J",
    "u", "d", "g", "e", "\n", "H", "a", "l", "l", " ", "2">>
FillerPiece ==
    <<"#", "#", "#", "#", "#", "#", "#", "#", "#", "#", "#", "#", "#", "#",
    "#", "#", "#", "#", "#", "#", "#", "#", "#", "#", "#", "#", "#", "#", "#",
    "#", "#", "#", "#", "#", "#", "#", "#", "#", "#", "#", "#", "#", "#", "#",
    "#", "#", "#", "#", "#", "#", "#", "#", "#", "#", "#", "#", "#", "#", "#",
    "#">>
BlankPiece ==
    <<" ", "\n", " ">>

StatusPieces ==
    { CnrPiece,
      CnrLowerPiece,
      CnrShortPiece,
      DatePiece,
      NextDatePiece,
      OverlapPiece,
      BlankStagePiece,
      DevanagariDatePiece,
      CaseNoPiece,
      CourtPiece,
      FillerPiece,
      BlankPiece }

\* the page whose text nodes, each in an element of its own, hold the strings
PieceSoup(strs) ==
    Elem("[document]", [i \in DOMAIN strs |-> Elem("p", <<TextNode(strs[i])>>)])

InitStatus ==
    /\ cs_pc = "call"
    /\ cs_soup \in {PieceSoup(ps) : ps \in SeqsOf(StatusPieces, 0, MaxNodes)}
    /\ cs_overview = None
    /\ MatchIdle
    /\ CauseIdle
    /\ MainIdle

StatusCall ==
    /\ cs_pc = "call"
    /\ cs_overview' = Some(parse_case_status_html(cs_soup))
    /\ cs_pc' = "done"
    /\ UNCHANGED <<cs_soup, matchVars, causeVars, mainVars>>

NextStatus == StatusCall

SpecStatus == InitStatus /\ [][NextStatus]_vars

UpperAlnum == Uppers \cup AsciiDigits

CnrLabel == <<"C", "N", "R", " ", "N", "o", ":", " ">>

\* the label "CNR No: " and 16 upper-case alphanumeric characters at offset p of str
ClaimedCnrAt(str, p) ==
    /\ p + Len(CnrLabel) + 16 <= Len(str)
    /\ SubSeq(str, p + 1, p + Len(CnrLabel)) = CnrLabel
    /\ \A k \in 1..16 : str[p + Len(CnrLabel) + k] \in UpperAlnum

ClaimedCnr(str, p) == SubSeq(str, p + Len(CnrLabel) + 1, p + Len(CnrLabel) + 16)

\* C9: whenever a text node of the page holds "CNR No: " followed by 16
\* upper-case alphanumeric characters, cnr is exactly those 16 characters,
\* whatever else the page holds.
C9_Claimed ==
    cs_pc = "done" =>
        LET strs == StringsIn(cs_soup.kids)
        IN \A i \in DOMAIN strs : \A p \in 0..Len(strs[i]) :
              ClaimedCnrAt(strs[i], p) =>
                  Val(cs_overview).cnr = Some(ClaimedCnr(strs[i], p))

\* (\d{2}-\d{2}-\d{4}) at offset p of str, character by character
DateShaped(str, p) ==
    /\ p + 10 <= Len(str)
    /\ \A k \in {1, 2, 4, 5, 7, 8, 9, 10} : str[p + k] \in Digits
    /\ \A k \in {3, 6} : str[p + k] = "-"

\* the offsets of the left-to-right, non-overlapping date matches of str: no two
\* overlap, and every other date-shaped place overlaps one that starts before it
ScanMatches(str) ==
    LET all == {p \in 0..Len(str) : DateShaped(str, p)}
    IN CHOOSE S \in SUBSET all :
          /\ \A p \in S : \A q \in S : p < q => p + 10 <= q
          /\ \A q \in all \ S : \E p \in S : p < q /\ q < p + 10

\* the elements of a finite set of integers in increasing order
RECURSIVE Ascending(_)
Ascending(S) ==
    IF S = {} THEN <<>>
    ELSE LET m == CHOOSE x \in S : \A y \in S : x <= y
         IN <<m>> \o Ascending(S \ {m})

\* C10: hearings holds exactly one entry per left-to-right, non-overlapping
\* DD-MM-YYYY match of the flattened text, in scan order, with or without a
\* purpose; equal dates stay separate entries and every date is two digits, a
\* dash, two digits, a dash and four digits.
C10_OneHearingPerDateMatch ==
    cs_pc = "done" =>
        LET text == GetText(cs_soup)
            hs == Val(cs_overview).hearings
            ps == Ascending(ScanMatches(text))
        IN /\ Len(hs) = Len(ps)
           /\ \A k \in DOMAIN hs :
                 /\ k <= Len(ps) => hs[k].date = SubSeq(text, ps[k] + 1, ps[k] + 10)
                 /\ DateShaped(hs[k].date, 0)
                 /\ Len(hs[k].date) = 10

\* the same date twice, once without and once with a purpose
C10_Witness ==
    /\ cs_pc = "done"
    /\ LET text == GetText(cs_soup)
           hs == Val(cs_overview).hearings
       IN /\ Len(hs) = 2
          /\ hs[1].date = hs[2].date
          /\ hs[1].purpose = None
          /\ hs[2].purpose # None
          /\ Cardinality({p \in 0..Len(text) : DateShaped(text, p)}) = 2

----------------------------------------------------------------------------
(* Specification of a run of main *)

LeapDatePiece ==
    <<"2", "9", "-", "0", "2", "-", "2", "0", "2", "4", " ", "S", "t", "a", "g", "e", ":", " ", "O", "r", "d", "e", "r", "s">>

\* the case status pages the browser may show
MainStatusPages ==
    { PieceSoup(<<>>),
      PieceSoup(<<CaseNoPiece>>),
      PieceSoup(<<DatePiece>>),
      PieceSoup(<<CaseNoPiece, DatePiece>>),
      PieceSoup(<<CaseNoPiece, LeapDatePiece, NextDatePiece>>) }

Slot(row) == [row |-> row, inner |-> None, fresh |-> FALSE]

\* the cause list pages the browser may show
MainCausePages ==
    { SlotSoup(<<>>),
      SlotSoup(<<Slot(RowHeader), Slot(RowOs45)>>),
      SlotSoup(<<Slot(Row007)>>),
      SlotSoup(<<Slot(Row007), Slot(RowOs45Court)>>) }

\* the command lines: each of --cnr, --case-type, --case-number and --year left
\* out, given as the empty string or given a value, and the three flags
CommandLines ==
    [ cnr : {None, Some(<<>>), Some(ClaimedCnr(CnrPiece, 0))},
      case_type : {None, Some(<<>>), Some(<<"O", "S">>)},
      case_number : {None, Some(<<>>), Some(<<"4", "5">>)},
      year : {None, Some(<<"2", "0", "2", "3">>)},
      today : BOOLEAN, tomorrow : BOOLEAN, causelist : BOOLEAN ]

\* what lines 396-419 accept: exactly one of --cnr and --case-type is given, and
\* a case type that is not empty comes with a case number and a year that are
\* not empty
MainArgs ==
    { a \in CommandLines :
        /\ (a.cnr = None) # (a.case_type = None)
        /\ ~(Truthy(a.case_type) /\ (~Truthy(a.case_number) \/ ~Truthy(a.year))) }

\* the instants the clock may show
Instants ==
    { [y |-> 2024, m |-> 2, d |-> 28, min |-> 720],
      [y |-> 2024, m |-> 12, d |-> 31, min |-> 1140],
      [y |-> 2025, m |-> 3, d |-> 4, min |-> 1109],
      [y |-> 2025, m |-> 3, d |-> 4, min |-> 1110] }

Init ==
    /\ pc = "parse"
    /\ \E a \in CommandLines : MainStart(a)
    /\ MatchIdle
    /\ CauseIdle
    /\ StatusIdle

\* lines 392-419: the command line is accepted
MainParseArgs ==
    /\ pc = "parse"
    /\ args \in MainArgs
    /\ pc' = "construct"
    /\ UNCHANGED <<args, result, entries, listingVars, runVars, otherVars>>

\* lines 416-419: parse_args or parser.error ends main with SystemExit
MainParseArgsRejects ==
    /\ pc = "parse"
    /\ args \notin MainArgs
    /\ raised' = "SystemExit"
    /\ raised_in' = "parse_args"
    /\ pc' = "done"
    /\ UNCHANGED <<args, result, entries, listingVars, except_raised, close_raised,
                   exit_code, saved, driver_open, otherVars>>

\* lines 392-419 are interrupted (SIGINT): the KeyboardInterrupt leaves main
MainParseArgsInterrupted ==
    /\ pc = "parse"
    /\ raised' = "KeyboardInterrupt"
    /\ raised_in' = "parse_args"
    /\ pc' = "done"
    /\ UNCHANGED <<args, result, entries, listingVars, except_raised, close_raised,
                   exit_code, saved, driver_open, otherVars>>

\* lines 421-452: the scraper, with its browser session, and the RunResult are
\* made
MainConstruct ==
    /\ pc = "construct"
    /\ driver_open' = TRUE
    /\ result' = NewRunResult
    /\ pc' = "step1"
    /\ UNCHANGED <<args, entries, listingVars, raised, raised_in, except_raised,
                   close_raised, exit_code, saved, otherVars>>

\* lines 421-452 raise or are interrupted, outside the try block: the exception
\* leaves main and close() is not called; the browser session is open if the
\* webdriver was made (line 223 with 234, 243) before the exception
MainConstructRaises ==
    /\ pc = "construct"
    /\ \E e \in {"Exception", "KeyboardInterrupt"} : raised' = e
    /\ raised_in' = "construct"
    /\ driver_open' \in BOOLEAN
    /\ pc' = "done"
    /\ UNCHANGED <<args, result, entries, listingVars, except_raised, close_raised,
                   exit_code, saved, otherVars>>

\* lines 456-459: the case status flow
MainCnrFlow ==
    /\ pc = "step1"
    /\ IF Truthy(args.cnr)
       THEN \E soup \in MainStatusPages :
               result' = [result EXCEPT !.case_overview = Some(parse_case_status_html(soup))]
       ELSE UNCHANGED result
    /\ pc' = "step2"
    /\ UNCHANGED <<args, entries, listingVars, runVars, otherVars>>

\* cnr_flow raises
MainCnrFlowRaises ==
    /\ pc = "step1"
    /\ Truthy(args.cnr)
    /\ \E e \in {"Exception", "KeyboardInterrupt"} : raised' = e
    /\ raised_in' = "cnr_flow"
    /\ pc' = "except"
    /\ UNCHANGED <<args, result, entries, listingVars, except_raised, close_raised,
                   exit_code, saved, driver_open, otherVars>>

\* lines 456-459 are interrupted (SIGINT) outside cnr_flow: before the call, or
\* after line 458 has stored the overview
MainCnrFlowInterrupted ==
    /\ pc = "step1"
    /\ \/ UNCHANGED result
       \/ /\ Truthy(args.cnr)
          /\ \E soup \in MainStatusPages :
                result' = [result EXCEPT !.case_overview = Some(parse_case_status_html(soup))]
    /\ raised' = "KeyboardInterrupt"
    /\ raised_in' = "step1"
    /\ pc' = "except"
    /\ UNCHANGED <<args, entries, listingVars, except_raised, close_raised,
                   exit_code, saved, driver_open, otherVars>>

\* lines 462-470: the cause list flow
MainCauseListFlow ==
    /\ pc = "step2"
    /\ IF args.causelist \/ args.today \/ args.tomorrow
       THEN \E soup \in MainCausePages : entries' = parse_cause_list_html(soup)
       ELSE entries' = <<>>
    /\ pc' = "step3"
    /\ UNCHANGED <<args, result, listingVars, runVars, otherVars>>

\* causelist_flow raises
MainCauseListFlowRaises ==
    /\ pc = "step2"
    /\ args.causelist \/ args.today \/ args.tomorrow
    /\ \E e \in {"Exception", "KeyboardInterrupt"} : raised' = e
    /\ raised_in' = "causelist_flow"
    /\ pc' = "except"
    /\ UNCHANGED <<args, result, entries, listingVars, except_raised, close_raised,
                   exit_code, saved, driver_open, otherVars>>

\* lines 462-470 are interrupted (SIGINT) outside causelist_flow: before the
\* call, or after line 466 has stored the rows
MainCauseListFlowInterrupted ==
    /\ pc = "step2"
    /\ \/ UNCHANGED entries
       \/ /\ args.causelist \/ args.today \/ args.tomorrow
          /\ \E soup \in MainCausePages : entries' = parse_cause_list_html(soup)
    /\ raised' = "KeyboardInterrupt"
    /\ raised_in' = "step2"
    /\ pc' = "except"
    /\ UNCHANGED <<args, result, listingVars, except_raised, close_raised,
                   exit_code, saved, driver_open, otherVars>>

\* lines 478-505: the identifier and the search of the cause list
MainMatch ==
    /\ pc = "step3"
    /\ case_key' = CaseKey(args, result.case_overview)
    /\ LET r == MatchStep(entries, case_key', args.today, args.tomorrow)
       IN /\ matched' = r.matched
          /\ listing_details' = r.listing_details
          /\ listed_today' = r.listed_today
          /\ listed_tomorrow' = r.listed_tomorrow
    /\ pc' = "fallback"
    /\ UNCHANGED <<args, result, entries, now_today, now_tomorrow, runVars, otherVars>>

\* the assignments of lines 478-505 in the order the code makes them: case_key
\* (478-482), matched (490), listing_details (492), listed_today (499, 503),
\* listed_tomorrow (500, 505)
MatchAssignments == 5

\* lines 478-505 are interrupted (SIGINT) after the first k assignments, k less
\* than all of them: among others inside find_case_in_cause_list (k = 1)
MainMatchInterrupted ==
    /\ pc = "step3"
    /\ \E k \in 0..(MatchAssignments - 1) :
          LET key == CaseKey(args, result.case_overview)
              r == MatchStep(entries, key, args.today, args.tomorrow)
          IN /\ case_key' = IF k >= 1 THEN key ELSE case_key
             /\ matched' = IF k >= 2 THEN r.matched ELSE matched
             /\ listing_details' = IF k >= 3 THEN r.listing_details ELSE listing_details
             /\ listed_today' = IF k >= 4 THEN r.listed_today ELSE listed_today
             /\ listed_tomorrow' = listed_tomorrow
    /\ raised' = "KeyboardInterrupt"
    /\ raised_in' = "step3"
    /\ pc' = "except"
    /\ UNCHANGED <<args, result, entries, now_today, now_tomorrow, except_raised,
                   close_raised, exit_code, saved, driver_open, otherVars>>

\* lines 508-513: the flags after the hearing-date fallback, with the clock
\* showing t at line 511 and u at line 513
FallbackFlags(t, u) ==
    LET fallback == result.case_overview # None /\ (args.today \/ args.tomorrow)
        hearings == Val(result.case_overview).hearings
    IN [ listed_today |->
            IF fallback
            THEN FallbackFlag(listed_today, args.today, hearings, date_str_ist(t, 0))
            ELSE listed_today,
         listed_tomorrow |->
            IF fallback
            THEN FallbackFlag(listed_tomorrow, args.tomorrow, hearings, date_str_ist(u, 1))
            ELSE listed_tomorrow ]

\* lines 516-521: the snapshot of the cause list
CauseListSnapshot ==
    IF entries # <<>>
    THEN Some([count |-> Len(entries), entries |-> entries])
    ELSE None

\* lines 507-525: the hearing-date fallback and the fields of the result
MainFallback ==
    /\ pc = "fallback"
    /\ \E t \in Instants : \E u \in Instants :
          /\ now_today' = t
          /\ now_tomorrow' = u
          /\ listed_today' = FallbackFlags(t, u).listed_today
          /\ listed_tomorrow' = FallbackFlags(t, u).listed_tomorrow
    /\ result' = [result EXCEPT
                    !.cause_list = CauseListSnapshot,
                    !.is_listed_today = listed_today',
                    !.is_listed_tomorrow = listed_tomorrow',
                    !.listing_details = listing_details]
    /\ pc' = "persist"
    /\ UNCHANGED <<args, entries, case_key, matched, listing_details, runVars, otherVars>>

\* the assignments of lines 507-525 in the order the code makes them:
\* listed_today (511), listed_tomorrow (513), result.cause_list (517),
\* result.is_listed_today (523), result.is_listed_tomorrow (524),
\* result.listing_details (525)
FallbackAssignments == 6

\* lines 507-525 are interrupted (SIGINT) after the first k assignments, k less
\* than all of them: among others at line 513 after line 511 is done (k = 1)
MainFallbackInterrupted ==
    /\ pc = "fallback"
    /\ \E k \in 0..(FallbackAssignments - 1) : \E t \in Instants : \E u \in Instants :
          /\ now_today' = IF k >= 1 THEN t ELSE now_today
          /\ now_tomorrow' = IF k >= 2 THEN u ELSE now_tomorrow
          /\ listed_today' =
                IF k >= 1 THEN FallbackFlags(t, u).listed_today ELSE listed_today
          /\ listed_tomorrow' =
                IF k >= 2 THEN FallbackFlags(t, u).listed_tomorrow ELSE listed_tomorrow
          /\ result' = [result EXCEPT
                          !.cause_list = IF k >= 3 THEN CauseListSnapshot ELSE @,
                          !.is_listed_today = IF k >= 4 THEN listed_today' ELSE @,
                          !.is_listed_tomorrow = IF k >= 5 THEN listed_tomorrow' ELSE @]
    /\ raised' = "KeyboardInterrupt"
    /\ raised_in' = "fallback"
    /\ pc' = "except"
    /\ UNCHANGED <<args, entries, case_key, matched, listing_details, except_raised,
                   close_raised, exit_code, saved, driver_open, otherVars>>

\* lines 527-569: the result files are written and main returns 0
MainPersist ==
    /\ pc = "persist"
    /\ saved' = TRUE
    /\ exit_code' = Some(0)
    /\ pc' = "finally"
    /\ UNCHANGED <<args, result, entries, listingVars, raised, raised_in, except_raised,
                   close_raised, driver_open, otherVars>>

\* lines 527-567 raise: saving the JSON file, saving the text file or printing
\* fails, before or after a result file is written
MainPersistRaises ==
    /\ pc = "persist"
    /\ \E e \in {"Exception", "KeyboardInterrupt"} : raised' = e
    /\ raised_in' = "persist"
    /\ saved' \in BOOLEAN
    /\ pc' = "except"
    /\ UNCHANGED <<args, result, entries, listingVars, except_raised, close_raised,
                   exit_code, driver_open, otherVars>>

\* lines 571-576: the handler prints and returns 130 or 1; when its print raises
\* (standard output is closed) or it is interrupted, that exception leaves the
\* except clause and nothing is returned
MainExcept ==
    /\ pc = "except"
    /\ \/ /\ except_raised' = "none"
          /\ exit_code' = IF raised = "KeyboardInterrupt" THEN Some(130) ELSE Some(1)
       \/ /\ \E e \in {"Exception", "KeyboardInterrupt"} : except_raised' = e
          /\ exit_code' = None
    /\ pc' = "finally"
    /\ UNCHANGED <<args, result, entries, listingVars, raised, raised_in, close_raised,
                   saved, driver_open, otherVars>>

\* a finally clause that runs only after a run without an exception
MainFinally_OnlyOnSuccess ==
    /\ pc = "finally"
    /\ driver_open' = (raised # "none")
    /\ close_raised' = "none"
    /\ pc' = "done"
    /\ UNCHANGED <<args, result, entries, listingVars, raised, raised_in, except_raised,
                   exit_code, saved, otherVars>>

\* lines 577-578 and ECourtsScraper.close (377-381): driver.quit() ends the
\* session and main goes on as it was, returning its exit code or raising; an
\* Exception of driver.quit() is swallowed, main goes on as it was and the
\* session is closed only if quit() had ended it before it raised; a
\* KeyboardInterrupt in the finally clause, before, in or after quit(), is not
\* swallowed and leaves main in place of what main was returning or raising
MainFinally ==
    /\ pc = "finally"
    /\ \/ /\ close_raised' = "none"
          /\ driver_open' = FALSE
          /\ exit_code' = exit_code
       \/ /\ close_raised' = "Exception"
          /\ driver_open' \in BOOLEAN
          /\ exit_code' = exit_code
       \/ /\ close_raised' = "KeyboardInterrupt"
          /\ driver_open' \in BOOLEAN
          /\ exit_code' = None
    /\ pc' = "done"
    /\ UNCHANGED <<args, result, entries, listingVars, raised, raised_in, except_raised,
                   saved, otherVars>>

Next ==
    \/ MainParseArgs
    \/ MainParseArgsRejects
    \/ MainParseArgsInterrupted
    \/ MainConstruct
    \/ MainConstructRaises
    \/ MainCnrFlow
    \/ MainCnrFlowRaises
    \/ MainCnrFlowInterrupted
    \/ MainCauseListFlow
    \/ MainCauseListFlowRaises
    \/ MainCauseListFlowInterrupted
    \/ MainMatch
    \/ MainMatchInterrupted
    \/ MainFallback
    \/ MainFallbackInterrupted
    \/ MainPersist
    \/ MainPersistRaises
    \/ MainExcept
    \/ MainFinally

Spec == Init /\ [][Next]_vars

\* the listing decision is taken: main is past line 525
Decided == pc \in {"persist", "finally", "done"} /\ raised = "none"

\* the matcher was run: the rows are not empty and there is an identifier
MatcherRan == entries # <<>> /\ case_key # None

Hearings == Val(result.case_overview).hearings

\* the day and the next day at UTC+5:30 of the instants of the clock, as
\* DD-MM-YYYY
IstDay(t) ==
    CASE t = [y |-> 2024, m |-> 2, d |-> 28, min |-> 720] ->
            [today |-> <<"2", "8", "-", "0", "2", "-", "2", "0", "2", "4">>,
             tomorrow |-> <<"2", "9", "-", "0", "2", "-", "2", "0", "2", "4">>]
      [] t = [y |-> 2024, m |-> 12, d |-> 31, min |-> 1140] ->
            [today |-> <<"0", "1", "-", "0", "1", "-", "2", "0", "2", "5">>,
             tomorrow |-> <<"0", "2", "-", "0", "1", "-", "2", "0", "2", "5">>]
      [] t = [y |-> 2025, m |-> 3, d |-> 4, min |-> 1109] ->
            [today |-> <<"0", "4", "-", "0", "3", "-", "2", "0", "2", "5">>,
             tomorrow |-> <<"0", "5", "-", "0", "3", "-", "2", "0", "2", "5">>]
      [] t = [y |-> 2025, m |-> 3, d |-> 4, min |-> 1110] ->
            [today |-> <<"0", "5", "-", "0", "3", "-", "2", "0", "2", "5">>,
             tomorrow |-> <<"0", "6", "-", "0", "3", "-", "2", "0", "2", "5">>]

HearingOn(day) == \E i \in DOMAIN Hearings : Hearings[i].date = day

\* C2: when the rows are not empty, an identifier exists and the matcher returns
\* a row, the decision's details are that row's serial, court_info, case_text and
\* purpose, and a flag is true exactly if it was requested; a flag that was not
\* requested is not set by the match and stays absent.
C2_MatchSetsDetailsAndRequestedFlags ==
    (MatcherRan /\ matched # None) =>
        /\ pc = "fallback" =>
              /\ listed_today = (IF args.today THEN Some(TRUE) ELSE None)
              /\ listed_tomorrow = (IF args.tomorrow THEN Some(TRUE) ELSE None)
        /\ Decided =>
              /\ \E i \in DOMAIN entries :
                    /\ entries[i] = Val(matched)
                    /\ RowHoldsKey(entries[i], Val(case_key))
              /\ result.listing_details # None
              /\ Val(result.listing_details).serial = Val(matched).serial
              /\ Val(result.listing_details).court = Val(matched).court_info
              /\ Val(result.listing_details).case_text = Val(matched).case_text
              /\ Val(result.listing_details).purpose = Val(matched).purpose
              /\ result.is_listed_today = (IF args.today THEN Some(TRUE) ELSE None)
              /\ result.is_listed_tomorrow = (IF args.tomorrow THEN Some(TRUE) ELSE None)

\* a match with only today requested, on a row that has a court
C2_Witness ==
    /\ Decided
    /\ MatcherRan
    /\ matched # None
    /\ args.today
    /\ ~args.tomorrow
    /\ result.is_listed_today = Some(TRUE)
    /\ result.is_listed_tomorrow = None
    /\ Val(result.listing_details).court # None
    /\ Val(result.listing_details).serial = <<"3">>

\* C3: when the rows are not empty, an identifier exists and the matcher returns
\* None, the decision has no details and every requested flag is false, after the
\* search and after the hearing-date fallback, whatever the hearings hold.
C3_NoMatchLeavesRequestedFlagsFalse ==
    (MatcherRan /\ matched = None) =>
        /\ pc = "fallback" =>
              /\ listing_details = None
              /\ args.today => listed_today = Some(FALSE)
              /\ args.tomorrow => listed_tomorrow = Some(FALSE)
        /\ Decided =>
              /\ result.listing_details = None
              /\ args.today => result.is_listed_today = Some(FALSE)
              /\ args.tomorrow => result.is_listed_tomorrow = Some(FALSE)

\* no match, and the overview has a hearing on the very day asked for
C3_Witness ==
    /\ Decided
    /\ MatcherRan
    /\ matched = None
    /\ args.today
    /\ result.case_overview # None
    /\ HearingOn(IstDay(now_today).today)
    /\ result.is_listed_today = Some(FALSE)

\* C4 as claimed: in the decision a flag is absent only when there were no rows,
\* no identifier and no case overview: if one of the three was available, the
\* flag is not absent.
C4_Claimed ==
    Decided =>
        ((entries # <<>> \/ case_key # None \/ result.case_overview # None) =>
            /\ result.is_listed_today # None
            /\ result.is_listed_tomorrow # None)

\* C4 (amended): in the decision a flag is absent exactly when it was not
\* requested, or there was no case overview and the matcher was not run (no rows
\* or no identifier).
C4_AbsentExactlyWhen ==
    Decided =>
        /\ result.is_listed_today = None <=>
              (~args.today \/ (result.case_overview = None /\ ~MatcherRan))
        /\ result.is_listed_tomorrow = None <=>
              (~args.tomorrow \/ (result.case_overview = None /\ ~MatcherRan))

\* a requested flag is absent although an identifier was available
C4_Witness ==
    /\ Decided
    /\ args.today
    /\ case_key # None
    /\ entries = <<>>
    /\ result.case_overview = None
    /\ result.is_listed_today = None

\* C5: in the fallback step, when a case overview is present, a flag is requested
\* and the search left it absent, the flag becomes true if a hearing's date is
\* the current day (today) or the next day (tomorrow) at UTC+5:30 as DD-MM-YYYY,
\* and false otherwise; it is never absent after the step (lines 507-525 run to
\* their end), also with no hearings.
C5_FallbackSetsFlagFromHearings ==
    [][(pc = "fallback" /\ pc' = "persist" /\ result.case_overview # None) =>
          /\ (args.today /\ listed_today = None) =>
                listed_today' = Some(HearingOn(IstDay(now_today').today))
          /\ (args.tomorrow /\ listed_tomorrow = None) =>
                listed_tomorrow' = Some(HearingOn(IstDay(now_tomorrow').tomorrow))]_vars

\* on 28-02-2024 with a hearing on 29-02-2024: not listed today, listed tomorrow
C5_Witness ==
    /\ Decided
    /\ ~MatcherRan
    /\ args.today
    /\ args.tomorrow
    /\ result.case_overview # None
    /\ IstDay(now_tomorrow).tomorrow = <<"2", "9", "-", "0", "2", "-", "2", "0", "2", "4">>
    /\ HearingOn(IstDay(now_tomorrow).tomorrow)
    /\ result.is_listed_today = Some(FALSE)
    /\ result.is_listed_tomorrow = Some(TRUE)

\* C6 as claimed: with a case overview that has a hearing on the current date and
\* today requested, listed_today is true whatever the rows, the identifier and
\* want_tomorrow are.
C6_Claimed ==
    (/\ Decided
     /\ args.today
     /\ result.case_overview # None
     /\ HearingOn(IstDay(now_today).today))
        => result.is_listed_today = Some(TRUE)

\* C6 (amended): with a case overview that has a hearing on the current date and
\* today requested, listed_today is true unless the rows are not empty, an
\* identifier exists and the matcher returns None; then it is false.
C6_HearingTodayUnlessNoMatch ==
    (/\ Decided
     /\ args.today
     /\ result.case_overview # None
     /\ HearingOn(IstDay(now_today).today))
        => result.is_listed_today = Some(~(MatcherRan /\ matched = None))

\* the hearing of the day is the last of several and no search was made
C6_Witness ==
    /\ Decided
    /\ args.today
    /\ ~args.tomorrow
    /\ ~MatcherRan
    /\ result.case_overview # None
    /\ Len(Hearings) = 2
    /\ Hearings[2].date = IstDay(now_today).today
    /\ Hearings[1].date # IstDay(now_today).today
    /\ result.is_listed_today = Some(TRUE)

\* C11: in every hearing of the overview that parse_case_status_html returns,
\* purpose is absent or a string that is not empty; a window with no purpose text
\* gives the absent value, never the empty string.
C11_PurposeAbsentOrNonEmpty ==
    cs_pc = "done" =>
        \A k \in DOMAIN Val(cs_overview).hearings :
            LET purpose == Val(cs_overview).hearings[k].purpose
            IN purpose = None \/ Val(purpose) # <<>>

\* a flow of the scraper raised in this run
FlowRaised == raised_in \in {"cnr_flow", "causelist_flow"}

\* what the except clause returns for the exception of the try block
HandlerCode == IF raised = "KeyboardInterrupt" THEN 130 ELSE 1

\* C12 as claimed: if the case status flow or the cause list flow raises, main
\* ends with exit code 130 on a keyboard interrupt and 1 otherwise, no result
\* file of the run is written and the browser session is closed; the browser
\* session is closed on every path by which main returns.
C12_Claimed ==
    /\ FlowRaised => ~saved
    /\ pc = "done" =>
          /\ FlowRaised => (exit_code = Some(HandlerCode) /\ ~driver_open)
          /\ exit_code # None => ~driver_open

\* main ended before its try block (line 454)
EndedBeforeTry == raised_in \in {"parse_args", "construct"}

\* C12 (amended): if the case status flow or the cause list flow raises, no
\* result file of the run is written and main never returns 0: it returns 130 on
\* a keyboard interrupt and 1 otherwise, unless an exception is raised in the
\* except clause or a KeyboardInterrupt in the finally clause, which then leaves
\* main in place of an exit code.  Once main has entered its try block it
\* returns an exit code exactly when neither happens, and 0 exactly when the try
\* block raised nothing, the result files then being written; the finally
\* clause is reached on every path by which it ends, and the browser session is
\* closed whenever nothing was raised there; with an Exception of driver.quit(),
\* which close() swallows, main still returns its exit code.  When main ends
\* before its try block, an exception leaves it, no exit code is returned,
\* nothing is written and the finally clause is not reached: a session that was
\* opened stays open.
C12_FailureHandling ==
    /\ FlowRaised => ~saved /\ raised # "none"
    /\ pc \in {"parse", "construct"} => ~driver_open /\ raised = "none"
    /\ pc \in {"step1", "step2", "step3", "fallback", "persist", "except", "finally"} =>
          driver_open /\ close_raised = "none" /\ ~EndedBeforeTry
    /\ (pc = "done" /\ EndedBeforeTry) =>
          /\ raised # "none"
          /\ exit_code = None
          /\ ~saved
          /\ except_raised = "none" /\ close_raised = "none"
          /\ raised_in = "parse_args" => ~driver_open
    /\ (pc = "done" /\ ~EndedBeforeTry) =>
          /\ close_raised = "none" => ~driver_open
          /\ exit_code = None <=>
                (except_raised # "none" \/ close_raised = "KeyboardInterrupt")
          /\ exit_code # None =>
                /\ Val(exit_code) = (IF raised = "none" THEN 0 ELSE HandlerCode)
                /\ raised = "none" => saved

\* the cause list flow is interrupted after the case status flow gave an
\* overview; the handler and close() complete
C12_Witness ==
    /\ pc = "done"
    /\ raised_in = "causelist_flow"
    /\ raised = "KeyboardInterrupt"
    /\ except_raised = "none"
    /\ close_raised = "none"
    /\ result.case_overview # None
    /\ exit_code = Some(130)
    /\ ~saved
    /\ ~driver_open

====
